---- MODULE Spec2Model ----
(***************************************************************************)
(* Model of the asset-management server: the REST route handlers of        *)
(* server/routes.ts (src/unnamed/part_003), the storage layer of           *)
(* server/storage.ts, the session authentication of server/auth.ts and     *)
(* the table constraints of shared/schema.ts.                              *)
(*                                                                         *)
(* Spec starts with the routes registered on a development machine;        *)
(* BootSpec starts before registerRoutes, in any process environment.      *)
(*                                                                         *)
(* A request is a record in reqs.  Every step of a handler is one action:  *)
(* the synchronous code up to and including the next awaited database      *)
(* statement.  Requests interleave at these awaits, as they do on the      *)
(* Node.js event loop; a database statement itself is atomic.              *)
(*                                                                         *)
(* Rows carry a representative subset of their columns.  Timestamps        *)
(* (createdAt, updatedAt), ipAddress and userAgent are left out.           *)
(***************************************************************************)
EXTENDS Integers, Sequences, FiniteSets, TLC

VARIABLES users, sessions, categories, assets, adUsers, auditLogs,
          nextId, ldapConfigured, reqs, app, ldap, call, page

vars == <<users, sessions, categories, assets, adUsers, auditLogs,
          nextId, ldapConfigured, reqs, app, ldap, call, page>>

(***************************************************************************)
(* Bounds                                                                  *)
(***************************************************************************)
MaxRequests == 2

MaxRows == 2

(***************************************************************************)
(* Values                                                                  *)
(***************************************************************************)
\* SQL NULL / JavaScript null
NULL == "<null>"

\* JavaScript undefined (a missing row, a missing req.user)
Undefined == [undefined |-> TRUE]

\* a JSON value that is not a string (rejected by the zod text columns)
BadValue == "<not-a-string>"

Sessions == {"s1", "s2"}

\* gen_random_uuid(): the n-th generated primary key
Uuid(n) == "id" \o ToString(n)

\* String.prototype.toLowerCase on the e-mail addresses of the model
toLowerCase(s) ==
  CASE s = "ANN@x.io" -> "ann@x.io"
    [] s = "Bob@x.io" -> "bob@x.io"
    [] s = "New@x.io" -> "new@x.io"
    [] OTHER -> s

\* bcrypt.hash / bcrypt.compare
bcryptHash(password) == "$2a$12$" \o password

bcryptCompare(password, hash) == bcryptHash(password) = hash

\* the JSON texts of the jsonb column customFields
JsonTexts == {"{}", "{cpu:i7}"}

ObjectColumns == {"customFields"}

\* a JavaScript object: its JSON text and its identity, the allocation that
\* made it.  JSON.parse allocates: `row n` for the rows the database driver
\* hands to request n, `body n` for the body of request n.
Object(ref, text) == text \o "@" \o ref

Refs == {kind \o ToString(n) : kind \in {"row", "body"}, n \in 1..MaxRequests}

\* JSON.parse of the jsonb columns of a row or body
JSONparse(ref, row) ==
  IF row = Undefined THEN Undefined
  ELSE [k \in DOMAIN row |->
          IF k \in ObjectColumns /\ row[k] \in JsonTexts
          THEN Object(ref, row[k]) ELSE row[k]]

\* JSON.stringify of the value of column k: the text of an object
JSONstringifyValue(k, value) ==
  IF k \in ObjectColumns /\ \E x \in JsonTexts, ref \in Refs : value = Object(ref, x)
  THEN CHOOSE x \in JsonTexts : \E ref \in Refs : value = Object(ref, x)
  ELSE value

JSONstringify(row) == [k \in DOMAIN row |-> JSONstringifyValue(k, row[k])]

Insert(table, row) == table @@ (row.id :> row)

Remove(table, id) == [i \in DOMAIN table \ {id} |-> table[i]]

\* { ...row, ...data }: the columns named in data overwrite those of row
Merge(row, data) ==
  [k \in DOMAIN row |-> IF k \in DOMAIN data THEN data[k] ELSE row[k]]

Get(table, id) == IF id \in DOMAIN table THEN table[id] ELSE Undefined

(***************************************************************************)
(* shared/models/auth.ts is not part of the sources at hand: the users     *)
(* table and the login schema are modelled from their uses in auth.ts and  *)
(* routes.ts.                                                              *)
(***************************************************************************)
SeedUsers ==
  ("u1" :> [id |-> "u1", email |-> "ann@x.io", password |-> bcryptHash("pwA"),
            firstName |-> "Ann", lastName |-> "Lee", role |-> "user",
            isAdmin |-> FALSE, isActive |-> TRUE]) @@
  ("u2" :> [id |-> "u2", email |-> "bob@x.io", password |-> bcryptHash("pwB"),
            firstName |-> "", lastName |-> "", role |-> "readonly",
            isAdmin |-> FALSE, isActive |-> TRUE]) @@
  ("u3" :> [id |-> "u3", email |-> "cy@x.io", password |-> bcryptHash("pwC"),
            firstName |-> "Cy", lastName |-> "", role |-> "user",
            isAdmin |-> FALSE, isActive |-> FALSE])

\* loginSchema.parse: email is an e-mail address, password is not empty
loginSchema(body) ==
  /\ {"email", "password"} \subseteq DOMAIN body
  /\ body.email \notin {"", "not-an-email", BadValue}
  /\ body.password \notin {"", BadValue}

\* registerSchema.parse: email is an e-mail address, password and firstName
\* are not empty, lastName is optional
registerSchema(body) ==
  /\ {"email", "password", "firstName"} \subseteq DOMAIN body
  /\ body.email \notin {"", "not-an-email", BadValue}
  /\ body.password \notin {"", BadValue}
  /\ body.firstName \notin {"", BadValue}

\* the row an INSERT into users stores: role, isAdmin and isActive by default
UserRow(id, data) ==
  Merge([id |-> id, email |-> NULL, password |-> NULL, firstName |-> NULL,
         lastName |-> NULL, role |-> "user", isAdmin |-> FALSE,
         isActive |-> TRUE], data)

\* users: email UNIQUE
UserConstraints(table, row) ==
  \A i \in DOMAIN table \ {row.id} : table[i].email # row.email

(***************************************************************************)
(* server/auth.ts                                                          *)
(***************************************************************************)
\* the user object handed on as it was read
sanitizeUser_KeepsPassword(user) == user

sanitizeUser(user) == [k \in DOMAIN user \ {"password"} |-> user[k]]

\* passport.deserializeUser turning away the users whose account is disabled
deserializeUser_ActiveOnly(id) ==
  IF id \in DOMAIN users /\ users[id].isActive
  THEN sanitizeUser(users[id]) ELSE Undefined

\* passport.deserializeUser: the user of the session, or undefined
deserializeUser(id) ==
  IF id \in DOMAIN users THEN sanitizeUser(users[id]) ELSE Undefined

\* req.user as passport.session() sets it for a request on session s
ReqUser(s) ==
  IF sessions[s] = NULL THEN Undefined ELSE deserializeUser(sessions[s])

\* req.isAuthenticated() that lets every request pass
isAuthenticated_Always(user) == TRUE

\* req.isAuthenticated()
isAuthenticated(user) == user # Undefined

\* the verify callback without its isActive test
LocalStrategy_NoActiveCheck(email, password) ==
  LET found == {i \in DOMAIN users : users[i].email = toLowerCase(email)}
  IN IF found = {} THEN Undefined
     ELSE LET user == users[CHOOSE i \in found : TRUE]
          IN IF ~bcryptCompare(password, user.password) THEN Undefined
             ELSE sanitizeUser(user)

\* the verify callback of the LocalStrategy: the user, or FALSE
LocalStrategy(email, password) ==
  LET found == {i \in DOMAIN users : users[i].email = toLowerCase(email)}
  IN IF found = {} THEN Undefined
     ELSE LET user == users[CHOOSE i \in found : TRUE]
          IN IF ~user.isActive THEN Undefined
             ELSE IF ~bcryptCompare(password, user.password) THEN Undefined
             ELSE sanitizeUser(user)

\* process.env.X of a variable that is not set
Unset == "<unset>"

DevSecret == "dev-only-insecure-secret-do-not-use-in-production"

\* getSession that falls back to the development secret in every environment
getSession_NoThrow(env) ==
  [secret |-> IF env.SESSION_SECRET \in {Unset, ""} THEN DevSecret
              ELSE env.SESSION_SECRET,
   secure |-> env.NODE_ENV = "production"]

\* getSession: the options of the session middleware, Undefined when it throws
getSession(env) ==
  IF env.SESSION_SECRET \in {Unset, ""} /\ env.NODE_ENV = "production"
  THEN Undefined
  ELSE [secret |-> IF env.SESSION_SECRET \in {Unset, ""} THEN DevSecret
                   ELSE env.SESSION_SECRET,
        secure |-> env.NODE_ENV = "production"]

\* getUserByEmail comparing the email as it was typed
getUserByEmail_CaseSensitive(email) ==
  LET found == {i \in DOMAIN users : users[i].email = email}
  IN IF found = {} THEN Undefined ELSE users[CHOOSE i \in found : TRUE]

getUserByEmail(email) ==
  LET found == {i \in DOMAIN users : users[i].email = toLowerCase(email)}
  IN IF found = {} THEN Undefined ELSE users[CHOOSE i \in found : TRUE]

\* registerUser(data.email, data.password, data.firstName, data.lastName):
\* the values of its INSERT (lastName || null)
registerUser(data) ==
  [email |-> toLowerCase(data.email), password |-> bcryptHash(data.password),
   firstName |-> data.firstName,
   lastName |-> IF "lastName" \notin DOMAIN data \/ data.lastName = ""
                THEN NULL ELSE data.lastName]

(***************************************************************************)
(* server/routes.ts helpers                                                *)
(***************************************************************************)
\* `${firstName} ${lastName || ""}`.trim()
FullName(firstName, lastName) ==
  IF lastName = "" \/ lastName = NULL THEN firstName
  ELSE firstName \o " " \o lastName

\* getUserInfo without the request's user: every row is written as "System"
getUserInfo_System(user) == [userId |-> NULL, userName |-> "System"]

getUserInfo(user) ==
  IF user = Undefined THEN [userId |-> NULL, userName |-> "System"]
  ELSE [userId |-> IF user.id = "" THEN NULL ELSE user.id,
        userName |-> IF user.firstName # "" /\ user.firstName # NULL
                     THEN FullName(user.firstName, user.lastName)
                     ELSE IF user.email # "" THEN user.email ELSE "System"]

(***************************************************************************)
(* shared/schema.ts: columns, insert schemas and table constraints         *)
(***************************************************************************)
ASSET_STATUSES ==
  {"active", "inactive", "maintenance", "retired", "disposed", "lost", "stolen"}

\* the columns an insert schema accepts, in the order of the table definition
CategoryColumns == <<"name", "parentId">>

AssetColumns ==
  <<"assetTag", "name", "categoryId", "assignedUserId", "status", "customFields">>

AdUserColumns == <<"employeeId", "displayName", "email", "isActive">>

Range(seq) == {seq[i] : i \in DOMAIN seq}

\* zod object parse: required keys present, text values are strings, null
\* only where the column is nullable
zodParse(body, columns, required, nullable) ==
  /\ required \subseteq DOMAIN body
  /\ \A k \in DOMAIN body \cap Range(columns) :
       \/ k = "isActive"
       \/ /\ body[k] # BadValue
          /\ body[k] = NULL => k \in nullable

\* zod strips the keys the schema does not know
zodData(body, columns) == [k \in DOMAIN body \cap Range(columns) |-> body[k]]

insertCategorySchema(body) ==
  zodParse(body, CategoryColumns, {"name"}, {"parentId"})

insertCategorySchemaPartial(body) ==
  zodParse(body, CategoryColumns, {}, {"parentId"})

insertAssetSchema(body) ==
  zodParse(body, AssetColumns, {"assetTag", "name"},
           {"categoryId", "assignedUserId", "customFields"})

insertAssetSchemaPartial(body) ==
  zodParse(body, AssetColumns, {},
           {"categoryId", "assignedUserId", "customFields"})

insertAdUserSchema(body) ==
  zodParse(body, AdUserColumns, {"displayName"},
           {"employeeId", "email", "isActive"})

insertAdUserSchemaPartial(body) ==
  zodParse(body, AdUserColumns, {}, {"employeeId", "email", "isActive"})

\* the row an INSERT stores: the given columns, the column defaults elsewhere
CategoryRow(id, data) ==
  Merge([id |-> id, name |-> NULL, parentId |-> NULL], data)

AssetRow(id, data) ==
  Merge([id |-> id, assetTag |-> NULL, name |-> NULL, categoryId |-> NULL,
         assignedUserId |-> NULL, status |-> "active", customFields |-> "{}"],
        JSONstringify(data))

AdUserRow(id, data) ==
  Merge([id |-> id, employeeId |-> NULL, displayName |-> NULL, email |-> NULL,
         isActive |-> TRUE], data)

\* the assets table without the UNIQUE constraint on asset_tag
AssetConstraints_NoUnique(table, row) ==
  /\ row.assetTag # NULL /\ row.name # NULL /\ row.status # NULL
  /\ row.categoryId = NULL \/ row.categoryId \in DOMAIN categories
  /\ row.assignedUserId = NULL \/ row.assignedUserId \in DOMAIN adUsers

\* assets: asset_tag UNIQUE NOT NULL, name and status NOT NULL,
\* category_id REFERENCES categories, assigned_user_id REFERENCES ad_users
AssetConstraints(table, row) ==
  /\ row.assetTag # NULL /\ row.name # NULL /\ row.status # NULL
  /\ \A i \in DOMAIN table \ {row.id} : table[i].assetTag # row.assetTag
  /\ row.categoryId = NULL \/ row.categoryId \in DOMAIN categories
  /\ row.assignedUserId = NULL \/ row.assignedUserId \in DOMAIN adUsers

\* categories: name NOT NULL (parent_id carries no REFERENCES clause)
CategoryConstraints(table, row) == row.name # NULL

\* ad_users: display_name NOT NULL, employee_id UNIQUE, email UNIQUE
AdUserConstraints(table, row) ==
  /\ row.displayName # NULL
  /\ \A i \in DOMAIN table \ {row.id} :
       /\ row.employeeId # NULL => table[i].employeeId # row.employeeId
       /\ row.email # NULL => table[i].email # row.email

\* a categories table whose rows no foreign key protects
CategoryReferenced_Never(id) == FALSE

\* a DELETE fails while an asset still references the row
CategoryReferenced(id) == \E a \in DOMAIN assets : assets[a].categoryId = id

AdUserReferenced(id) == \E a \in DOMAIN assets : assets[a].assignedUserId = id

(***************************************************************************)
(* server/storage.ts                                                       *)
(***************************************************************************)
getAssetByTag(assetTag) ==
  LET found == {i \in DOMAIN assets : assets[i].assetTag = assetTag}
  IN IF found = {} THEN Undefined ELSE assets[CHOOSE i \in found : TRUE]

getAdUserByEmail(email) ==
  IF email = "" \/ email = NULL THEN Undefined
  ELSE LET found == {i \in DOMAIN adUsers : adUsers[i].email = email}
       IN IF found = {} THEN Undefined ELSE adUsers[CHOOSE i \in found : TRUE]

\* createAuditLog as an upsert on (entityType, entityId)
createAuditLog_Upsert(log, row) ==
  LET same == {i \in DOMAIN log : /\ log[i].entityType = row.entityType
                                  /\ log[i].entityId = row.entityId}
  IN IF same = {} THEN Append(log, row)
     ELSE [log EXCEPT ![CHOOSE i \in same : TRUE] = row]

\* createAuditLog: one more row; the rows already stored are not touched
createAuditLog(log, row) == Append(log, row)

(***************************************************************************)
(* server/routes.ts: getChanges                                            *)
(***************************************************************************)
RECURSIVE getChangesFrom(_, _, _, _)
getChangesFrom(oldData, newData, columns, i) ==
  IF i > Len(columns) THEN <<>>
  ELSE LET key == columns[i]
           rest == getChangesFrom(oldData, newData, columns, i + 1)
       IN IF key \in DOMAIN newData /\ oldData[key] # newData[key]
          THEN <<[field |-> key, oldValue |-> oldData[key],
                  newValue |-> newData[key]]>> \o rest
          ELSE rest

\* getChanges without its comparison: an entry for every key of newData
getChanges_EveryKey(oldData, newData, columns) ==
  LET keys == SelectSeq(columns, LAMBDA k : k \in DOMAIN newData)
  IN [i \in DOMAIN keys |->
        [field |-> keys[i], oldValue |-> oldData[keys[i]],
         newValue |-> newData[keys[i]]]]

\* columns: the keys newData can have, in the order Object.keys lists them
getChanges(oldData, newData, columns) ==
  getChangesFrom(oldData, newData, columns, 1)

(***************************************************************************)
(* Requests                                                                *)
(***************************************************************************)
\* a JSON null column of an audit row
NullJson == [null |-> TRUE]

\* a row as a jsonb column of an audit row stores it
Json(value) == IF value = Undefined THEN NullJson ELSE JSONstringify(value)

\* the changes column: the entries of getChanges as JSON
JsonChanges(changes) ==
  [list |-> [i \in DOMAIN changes |->
               [field |-> changes[i].field,
                oldValue |-> JSONstringifyValue(changes[i].field,
                                                changes[i].oldValue),
                newValue |-> JSONstringifyValue(changes[i].field,
                                                changes[i].newValue)]]]

\* a request that has just arrived on session s; req.user is set by the
\* session middleware.  trace, writes, before and after are history only: the
\* steps the handler has taken, the rows its statements have inserted, changed
\* or removed, and the stored row around its UPDATE.
NewReq(route, s, id, body) ==
  [route |-> route, sess |-> s, user |-> ReqUser(s), id |-> id, body |-> body,
   pc |-> "start", status |-> 0, existing |-> Undefined, data |-> Undefined,
   existingAsset |-> Undefined, result |-> Undefined, deleted |-> FALSE, idx |-> 1, list |-> <<>>,
   counts |-> [total |-> 0, created |-> 0, updated |-> 0, success |-> 0,
               failed |-> 0],
   trace |-> <<>>, writes |-> <<>>, before |-> Undefined, after |-> Undefined,
   response |-> Undefined]

Step(r, label) == [r EXCEPT !.trace = Append(@, label)]

\* a storage write has returned; changed: it inserted, changed or removed a row
Store(r, entityType, entityId, action, changed) ==
  LET r1 == Step(r, "store")
  IN IF changed
     THEN [r1 EXCEPT !.writes = Append(@, [entityType |-> entityType,
                                           entityId |-> entityId,
                                           action |-> action])]
     ELSE r1

\* res.status(status).json(...): the handler is over
\* (its locals are gone; route, user, id, status and the history stay)
Respond(r, status) ==
  [Step(r, "respond") EXCEPT !.pc = "done", !.status = status,
     !.body = NULL, !.existing = Undefined, !.data = Undefined,
     !.existingAsset = Undefined, !.result = Undefined, !.idx = 1, !.list = <<>>]

\* the audit row the handler of request number n writes
AuditRow(n, r, entityType, entityId, action, previousData, newData, changes) ==
  [entityType |-> entityType, entityId |-> entityId, action |-> action,
   userId |-> getUserInfo(r.user).userId,
   userName |-> getUserInfo(r.user).userName,
   previousData |-> previousData, newData |-> newData, changes |-> changes,
   req |-> n]

\* the routes are registered and one more request may arrive
CanStart == app.state = "listening" /\ Len(reqs) < MaxRequests

Arrive(r) == reqs' = Append(reqs, r)

Update(n, r) == reqs' = [reqs EXCEPT ![n] = r]

InFlight(pc, route) ==
  {n \in DOMAIN reqs : reqs[n].route = route /\ reqs[n].pc = pc}

(***************************************************************************)
(* Inputs                                                                  *)
(***************************************************************************)
\* an id no row has
NoSuchId == "id404"

LoginBodies ==
  { [email |-> "ANN@x.io", password |-> "pwA"],
    [email |-> "ANN@x.io", password |-> "pwB"],
    [email |-> "Bob@x.io", password |-> "pwB"],
    [email |-> "cy@x.io", password |-> "pwC"],
    [email |-> "nobody@x.io", password |-> "pwA"],
    [email |-> "not-an-email", password |-> "pwA"],
    [email |-> "ANN@x.io", password |-> ""],
    [email |-> "ANN@x.io"] }

CategoryBodies ==
  { [name |-> "Phones"],
    [name |-> "Phones", parentId |-> "id1"],
    [parentId |-> NULL],
    [name |-> BadValue] }

AssetBodies ==
  { [assetTag |-> "T1", name |-> "Laptop 2"],
    [assetTag |-> "T2", name |-> "Laptop 2"],
    [assetTag |-> "T2", name |-> "Laptop 2", status |-> "broken",
     categoryId |-> "id1"],
    [assetTag |-> "T2", name |-> "Laptop 2", assignedUserId |-> NoSuchId],
    [name |-> "Laptop 2"] }

AssetPatches ==
  { [assetTag |-> "T2"],
    [assetTag |-> "T1", status |-> "retired"],
    [status |-> "broken"],
    [categoryId |-> "id1", assignedUserId |-> "id2"],
    [name |-> "Laptop 1", customFields |-> "{}"],
    [customFields |-> "{cpu:i7}"],
    [name |-> BadValue] }

AdUserBodies ==
  { [displayName |-> "Eve", email |-> "eve@x.io", employeeId |-> "E2"],
    [displayName |-> "Dan", email |-> "dana@x.io"],
    [email |-> "eve@x.io"] }

RegisterBodies ==
  { [email |-> "ANN@x.io", password |-> "pwN", firstName |-> "Nia"],
    [email |-> "New@x.io", password |-> "pwN", firstName |-> "Nia",
     lastName |-> "Ng"],
    [email |-> "new@x.io", password |-> "pwN", firstName |-> "Nia"],
    [email |-> "not-an-email", password |-> "pwN", firstName |-> "Nia"] }

AdUserPatches ==
  { [displayName |-> "Dana B"],
    [email |-> "eve@x.io", isActive |-> FALSE],
    [displayName |-> NULL] }

\* what the directory returns for the user search, entry by entry
LdapDana ==
  [employeeId |-> "E1", displayName |-> "Dana", email |-> "dana@x.io",
   sAMAccountName |-> "dana"]

LdapEve ==
  [employeeId |-> "", displayName |-> "Eve", email |-> "",
   sAMAccountName |-> "eve"]

LdapPrinter ==
  [employeeId |-> "", displayName |-> "", email |-> "",
   sAMAccountName |-> "prn01$"]

Directories ==
  { <<LdapDana>>, <<LdapPrinter, LdapEve>>, <<LdapDana, LdapEve>> }

ImportRows ==
  { [assetTag |-> "T1", name |-> "Laptop 1", status |-> "retired"],
    [assetTag |-> "T3", name |-> "Dock", status |-> "broken"],
    [assetTag |-> "T4", status |-> "lost"] }

ImportBodies ==
  { [rows |-> rows, categoryId |-> c] :
      rows \in UNION {[1..k -> ImportRows] : k \in 0..MaxRows},
      c \in {NULL, "id1"} }
  \cup { [categoryId |-> NULL] }

(***************************************************************************)
(* Init: the database as three earlier POST requests of user u1 left it,   *)
(* the session store with a session of u1 and one without user            *)
(***************************************************************************)
SeedCategory == [id |-> "id1", name |-> "Laptops", parentId |-> NULL]

SeedAdUser ==
  [id |-> "id2", employeeId |-> "E1", displayName |-> "Dana",
   email |-> "dana@x.io", isActive |-> TRUE]

SeedAsset ==
  [id |-> "id3", assetTag |-> "T1", name |-> "Laptop 1", categoryId |-> NULL,
   assignedUserId |-> NULL, status |-> "active", customFields |-> "{}"]

SeedAudit(entityType, row) ==
  [entityType |-> entityType, entityId |-> row.id, action |-> "create",
   userId |-> "u1", userName |-> "Ann Lee", previousData |-> NullJson,
   newData |-> row, changes |-> NullJson, req |-> 0]

\* the tables other than the session store
InitTables ==
  /\ users = SeedUsers
  /\ categories = ("id1" :> SeedCategory)
  /\ adUsers = ("id2" :> SeedAdUser)
  /\ assets = ("id3" :> SeedAsset)
  /\ auditLogs = << SeedAudit("category", SeedCategory),
                    SeedAudit("user", SeedAdUser),
                    SeedAudit("asset", SeedAsset) >>
  /\ nextId = 4
  /\ ldapConfigured \in BOOLEAN
  /\ reqs = <<>>

InitDatabase ==
  /\ InitTables
  /\ sessions = [s \in Sessions |-> IF s = "s1" THEN "u1" ELSE NULL]

\* the process environment of a start of the server
Environments ==
  { [NODE_ENV |-> e, SESSION_SECRET |-> s] :
      e \in {"production", "development"}, s \in {Unset, "s3cret"} }

\* the server of a development machine after registerRoutes has returned
\* no syncAllUsers call has been made, no client exists
NoClient ==
  [pc |-> "idle", client |-> "none", created |-> "pending",
   promise |-> "none", directory |-> <<>>, delivered |-> 0, users |-> <<>>,
   events |-> <<>>]

\* no call of a helper function is being looked at
NoCall == [fn |-> NULL]

\* a JavaScript object without properties
EmptyObject == [h \in {} |-> <<>>]

\* the import page as its useState calls create it; readers: the FileReader
\* loads under way, requests: the import mutations under way, intervals: the
\* progress timers running, uploads and imports: how many were started
ImportPage ==
  [step |-> "upload", file |-> NULL, parsedData |-> [null |-> TRUE],
   mappings |-> EmptyObject, importProgress |-> 0,
   importResults |-> [success |-> 0, failed |-> 0],
   selectedCategoryId |-> "none",
   readers |-> <<>>, requests |-> <<>>, intervals |-> 0,
   uploads |-> 0, imports |-> 0]

\* the server after registerRoutes, started without SESSION_SECRET in
\* development
ListeningApp ==
  LET env == [NODE_ENV |-> "development", SESSION_SECRET |-> Unset]
  IN [env |-> env, state |-> "listening", session |-> getSession(env)]

Init ==
  /\ InitDatabase
  /\ ldap = NoClient
  /\ page = ImportPage
  /\ call = NoCall
  /\ app = ListeningApp

\* the process before registerRoutes is called, in any environment
BootInit ==
  /\ InitDatabase
  /\ ldap = NoClient
  /\ page = ImportPage
  /\ call = NoCall
  /\ \E env \in Environments :
       app = [env |-> env, state |-> "starting", session |-> Undefined]

(***************************************************************************)
(* registerRoutes: await setupAuth(app), then the routes are registered    *)
(***************************************************************************)
registerRoutes ==
  /\ app.state = "starting"
  /\ LET session == getSession(app.env)
     IN app' = IF session = Undefined THEN [app EXCEPT !.state = "failed"]
               ELSE [app EXCEPT !.state = "listening", !.session = session]
  /\ UNCHANGED <<users, sessions, categories, assets, adUsers, auditLogs,
                 nextId, ldapConfigured, reqs, ldap, call, page>>

(***************************************************************************)
(* POST /api/auth/register                                                 *)
(***************************************************************************)
\* the history of a registration keeps the body it was called with
Register_GetByEmail(s, body) ==
  /\ CanStart
  /\ LET r == NewReq("POST /api/auth/register", s, NULL, body)
     IN IF ~registerSchema(body)
        THEN Arrive([Respond(r, 400) EXCEPT !.data = body])
        ELSE Arrive([Step(r, "validate")
                       EXCEPT !.pc = "checked", !.data = body,
                              !.existing = getUserByEmail(body.email)])
  /\ UNCHANGED <<users, sessions, categories, assets, adUsers, auditLogs,
                 nextId, ldapConfigured, app, ldap, call, page>>

\* bcrypt.hash, the INSERT and req.login
Register_Insert(n) ==
  /\ n \in InFlight("checked", "POST /api/auth/register")
  /\ LET r == reqs[n]
         user == UserRow(Uuid(nextId), registerUser(r.data))
         Answer(status) == [Respond(r, status) EXCEPT !.data = r.data]
     IN IF r.existing # Undefined
        THEN Update(n, Answer(400)) /\ UNCHANGED <<users, sessions, nextId>>
        ELSE IF ~UserConstraints(users, user)
        THEN Update(n, Answer(500)) /\ UNCHANGED <<users, sessions, nextId>>
        ELSE /\ users' = Insert(users, user)
             /\ nextId' = nextId + 1
             /\ sessions' = [sessions EXCEPT ![r.sess] = user.id]
             /\ Update(n, [Answer(201) EXCEPT !.id = user.id,
                                              !.response = sanitizeUser(user)])
  /\ UNCHANGED <<categories, assets, adUsers, auditLogs, ldapConfigured, app, ldap, call, page>>

(***************************************************************************)
(* POST /api/auth/login, POST /api/auth/logout                             *)
(***************************************************************************)
\* the history of a login keeps the credentials it was called with
Login(s, body) ==
  /\ CanStart
  /\ LET r == NewReq("POST /api/auth/login", s, NULL, body)
         Answer(q, status) == [Respond(q, status) EXCEPT !.data = body]
         user == LocalStrategy(body.email, body.password)
     IN IF ~loginSchema(body)
        THEN Arrive(Answer(r, 400)) /\ UNCHANGED sessions
        ELSE IF user = Undefined
        THEN Arrive(Answer(Step(r, "validate"), 401)) /\ UNCHANGED sessions
        ELSE /\ sessions' = [sessions EXCEPT ![s] = user.id]
             /\ Arrive([Answer(Step(r, "validate"), 200)
                         EXCEPT !.response = user])
  /\ UNCHANGED <<users, categories, assets, adUsers, auditLogs, nextId,
                 ldapConfigured, app, ldap, call, page>>

Logout(s) ==
  /\ CanStart
  /\ sessions' = [sessions EXCEPT ![s] = NULL]
  /\ Arrive(Respond(NewReq("POST /api/auth/logout", s, NULL, NULL), 200))
  /\ UNCHANGED <<users, categories, assets, adUsers, auditLogs, nextId,
                 ldapConfigured, app, ldap, call, page>>

(***************************************************************************)
(* GET /api/auth/user                                                      *)
(***************************************************************************)
getUser(id) == IF id \in DOMAIN users THEN sanitizeUser(users[id]) ELSE Undefined

GetAuthUser_Start(s) ==
  /\ CanStart
  /\ LET r == NewReq("GET /api/auth/user", s, NULL, NULL)
     IN IF ~isAuthenticated(r.user)
        THEN Arrive(Respond(r, 401))
        ELSE Arrive([r EXCEPT !.pc = "auth"])
  /\ UNCHANGED <<users, sessions, categories, assets, adUsers, auditLogs,
                 nextId, ldapConfigured, app, ldap, call, page>>

GetAuthUser_Get(n) ==
  /\ n \in InFlight("auth", "GET /api/auth/user")
  /\ LET r == reqs[n]
     IN Update(n, [Respond(r, 200) EXCEPT !.response = getUser(r.user.id)])
  /\ UNCHANGED <<users, sessions, categories, assets, adUsers, auditLogs,
                 nextId, ldapConfigured, app, ldap, call, page>>

(***************************************************************************)
(* POST /api/categories                                                    *)
(***************************************************************************)
PostCategory_Create(s, body) ==
  /\ CanStart
  /\ LET r == NewReq("POST /api/categories", s, NULL, body)
         data == zodData(body, CategoryColumns)
         category == CategoryRow(Uuid(nextId), data)
     IN IF ~isAuthenticated(r.user)
        THEN Arrive(Respond(r, 401)) /\ UNCHANGED <<categories, nextId>>
        ELSE IF ~insertCategorySchema(body)
        THEN Arrive(Respond(r, 400)) /\ UNCHANGED <<categories, nextId>>
        ELSE /\ categories' = Insert(categories, category)
             /\ nextId' = nextId + 1
             /\ Arrive([Store(Step(r, "validate"), "category", category.id,
                           "create", TRUE)
                          EXCEPT !.pc = "audit", !.data = data,
                                 !.result = category, !.id = category.id])
  /\ UNCHANGED <<users, sessions, assets, adUsers, auditLogs, ldapConfigured, app, ldap, call, page>>

PostCategory_Audit(n) ==
  /\ n \in InFlight("audit", "POST /api/categories")
  /\ LET r == reqs[n]
     IN /\ auditLogs' = createAuditLog(auditLogs,
             AuditRow(n, r, "category", r.result.id, "create", NullJson,
                      Json(r.result), NullJson))
        /\ Update(n, Respond(Step(r, "audit"), 201))
  /\ UNCHANGED <<users, sessions, categories, assets, adUsers, nextId,
                 ldapConfigured, app, ldap, call, page>>

(***************************************************************************)
(* PATCH /api/categories/:id                                               *)
(***************************************************************************)
PatchCategory_Get(s, id, body) ==
  /\ CanStart
  /\ LET r == NewReq("PATCH /api/categories/:id", s, id, body)
     IN IF ~isAuthenticated(r.user)
        THEN Arrive(Respond(r, 401))
        ELSE Arrive([r EXCEPT !.pc = "got", !.existing = Get(categories, id)])
  /\ UNCHANGED <<users, sessions, categories, assets, adUsers, auditLogs,
                 nextId, ldapConfigured, app, ldap, call, page>>

PatchCategory_Update(n) ==
  /\ n \in InFlight("got", "PATCH /api/categories/:id")
  /\ LET r == reqs[n]
         data == zodData(r.body, CategoryColumns)
         before == Get(categories, r.id)
         category == IF before = Undefined THEN Undefined
                     ELSE Merge(before, data)
     IN IF r.existing = Undefined
        THEN Update(n, Respond(r, 404)) /\ UNCHANGED categories
        ELSE IF ~insertCategorySchemaPartial(r.body)
        THEN Update(n, Respond(r, 400)) /\ UNCHANGED categories
        ELSE IF category # Undefined /\ ~CategoryConstraints(categories, category)
        THEN Update(n, Respond(Step(r, "validate"), 500))
             /\ UNCHANGED categories
        ELSE /\ categories' = IF category = Undefined THEN categories
                              ELSE [categories EXCEPT ![r.id] = category]
             /\ Update(n, [Store(Step(r, "validate"), "category", r.id,
                              "update", category # Undefined)
                             EXCEPT !.pc = "audit", !.data = data,
                                    !.result = category,
                                    !.before = before, !.after = category])
  /\ UNCHANGED <<users, sessions, assets, adUsers, auditLogs, nextId,
                 ldapConfigured, app, ldap, call, page>>

PatchCategory_Audit(n) ==
  /\ n \in InFlight("audit", "PATCH /api/categories/:id")
  /\ LET r == reqs[n]
     IN /\ auditLogs' = createAuditLog(auditLogs,
             AuditRow(n, r, "category", r.id, "update", Json(r.existing),
                      Json(r.result),
                      JsonChanges(getChanges(r.existing, r.data,
                                             CategoryColumns))))
        /\ Update(n, Respond(Step(r, "audit"), 200))
  /\ UNCHANGED <<users, sessions, categories, assets, adUsers, nextId,
                 ldapConfigured, app, ldap, call, page>>

(***************************************************************************)
(* DELETE /api/categories/:id                                              *)
(***************************************************************************)
DeleteCategory_Get(s, id) ==
  /\ CanStart
  /\ LET r == NewReq("DELETE /api/categories/:id", s, id, NULL)
     IN IF ~isAuthenticated(r.user)
        THEN Arrive(Respond(r, 401))
        ELSE Arrive([r EXCEPT !.pc = "got", !.existing = Get(categories, id)])
  /\ UNCHANGED <<users, sessions, categories, assets, adUsers, auditLogs,
                 nextId, ldapConfigured, app, ldap, call, page>>

DeleteCategory_Delete(n) ==
  /\ n \in InFlight("got", "DELETE /api/categories/:id")
  /\ LET r == reqs[n]
     IN IF r.existing = Undefined
        THEN Update(n, Respond(r, 404)) /\ UNCHANGED categories
        ELSE IF r.id \in DOMAIN categories /\ CategoryReferenced(r.id)
        THEN Update(n, Respond(r, 500)) /\ UNCHANGED categories
        ELSE /\ categories' = Remove(categories, r.id)
             /\ Update(n, [Store(r, "category", r.id, "delete",
                              r.id \in DOMAIN categories)
                             EXCEPT !.pc = "audit",
                                    !.deleted = r.id \in DOMAIN categories])
  /\ UNCHANGED <<users, sessions, assets, adUsers, auditLogs, nextId,
                 ldapConfigured, app, ldap, call, page>>

DeleteCategory_Audit(n) ==
  /\ n \in InFlight("audit", "DELETE /api/categories/:id")
  /\ LET r == reqs[n]
     IN /\ auditLogs' = createAuditLog(auditLogs,
             AuditRow(n, r, "category", r.id, "delete", Json(r.existing),
                      NullJson, NullJson))
        /\ Update(n, Respond(Step(r, "audit"), 200))
  /\ UNCHANGED <<users, sessions, categories, assets, adUsers, nextId,
                 ldapConfigured, app, ldap, call, page>>

(***************************************************************************)
(* POST /api/assets                                                        *)
(***************************************************************************)
PostAsset_GetByTag(s, body) ==
  /\ CanStart
  /\ LET r == NewReq("POST /api/assets", s, NULL, body)
         data == zodData(JSONparse("body" \o ToString(Len(reqs) + 1), body),
                         AssetColumns)
     IN IF ~isAuthenticated(r.user)
        THEN Arrive(Respond(r, 401))
        ELSE IF ~insertAssetSchema(body)
        THEN Arrive(Respond(r, 400))
        ELSE Arrive([Step(r, "validate")
                       EXCEPT !.pc = "checked", !.data = data,
                              !.existingAsset = getAssetByTag(data.assetTag)])
  /\ UNCHANGED <<users, sessions, categories, assets, adUsers, auditLogs,
                 nextId, ldapConfigured, app, ldap, call, page>>

\* the handler recording the refused creation in the audit log
PostAsset_Create_LogsRefusal(n) ==
  /\ n \in InFlight("checked", "POST /api/assets")
  /\ reqs[n].existingAsset # Undefined
  /\ LET r == reqs[n]
     IN /\ auditLogs' = createAuditLog(auditLogs,
             AuditRow(n, r, "asset", r.existingAsset.id, "create", NullJson,
                      NullJson, NullJson))
        /\ Update(n, Respond(Step(r, "audit"), 400))
  /\ UNCHANGED <<users, sessions, categories, assets, adUsers, nextId,
                 ldapConfigured, app, ldap, call, page>>

PostAsset_Create(n) ==
  /\ n \in InFlight("checked", "POST /api/assets")
  /\ LET r == reqs[n]
         asset == AssetRow(Uuid(nextId), r.data)
     IN IF r.existingAsset # Undefined
        THEN Update(n, Respond(r, 400)) /\ UNCHANGED <<assets, nextId>>
        ELSE IF ~AssetConstraints(assets, asset)
        THEN Update(n, Respond(r, 500)) /\ UNCHANGED <<assets, nextId>>
        ELSE /\ assets' = Insert(assets, asset)
             /\ nextId' = nextId + 1
             /\ Update(n, [Store(r, "asset", asset.id, "create", TRUE)
                             EXCEPT !.pc = "audit", !.result = asset,
                                    !.id = asset.id])
  /\ UNCHANGED <<users, sessions, categories, adUsers, auditLogs,
                 ldapConfigured, app, ldap, call, page>>

PostAsset_Audit(n) ==
  /\ n \in InFlight("audit", "POST /api/assets")
  /\ LET r == reqs[n]
     IN /\ auditLogs' = createAuditLog(auditLogs,
             AuditRow(n, r, "asset", r.result.id, "create", NullJson,
                      Json(r.result), NullJson))
        /\ Update(n, Respond(Step(r, "audit"), 201))
  /\ UNCHANGED <<users, sessions, categories, assets, adUsers, nextId,
                 ldapConfigured, app, ldap, call, page>>

(***************************************************************************)
(* PATCH /api/assets/:id                                                   *)
(***************************************************************************)
PatchAsset_Get(s, id, body) ==
  /\ CanStart
  /\ LET r == NewReq("PATCH /api/assets/:id", s, id, body)
         existing == JSONparse("row" \o ToString(Len(reqs) + 1), Get(assets, id))
     IN IF ~isAuthenticated(r.user)
        THEN Arrive(Respond(r, 401))
        ELSE Arrive([r EXCEPT !.pc = "got", !.existing = existing])
  /\ UNCHANGED <<users, sessions, categories, assets, adUsers, auditLogs,
                 nextId, ldapConfigured, app, ldap, call, page>>

\* storage.updateAsset(req.params.id, data) of request n, and what follows it
updateAsset(n, r, data) ==
  LET before == Get(assets, r.id)
      asset == IF before = Undefined THEN Undefined
               ELSE Merge(before, JSONstringify(data))
  IN IF asset # Undefined /\ ~AssetConstraints(assets, asset)
     THEN Update(n, Respond(r, 500)) /\ UNCHANGED assets
     ELSE /\ assets' = IF asset = Undefined THEN assets
                       ELSE [assets EXCEPT ![r.id] = asset]
          /\ Update(n, [Store(r, "asset", r.id, "update", asset # Undefined)
                          EXCEPT !.pc = "audit", !.data = data,
                                 !.result = asset,
                                 !.before = before, !.after = asset])

PatchAsset_Validate(n) ==
  /\ n \in InFlight("got", "PATCH /api/assets/:id")
  /\ LET r == reqs[n]
         data == zodData(JSONparse("body" \o ToString(n), r.body), AssetColumns)
     IN IF r.existing = Undefined
        THEN Update(n, Respond(r, 404)) /\ UNCHANGED assets
        ELSE IF ~insertAssetSchemaPartial(r.body)
        THEN Update(n, Respond(r, 400)) /\ UNCHANGED assets
        ELSE IF /\ "assetTag" \in DOMAIN data
                /\ data.assetTag # ""
                /\ data.assetTag # r.existing.assetTag
        THEN /\ Update(n, [Step(r, "validate")
                             EXCEPT !.pc = "checked", !.data = data,
                                    !.existingAsset = getAssetByTag(data.assetTag)])
             /\ UNCHANGED assets
        ELSE updateAsset(n, Step(r, "validate"), data)
  /\ UNCHANGED <<users, sessions, categories, adUsers, auditLogs, nextId,
                 ldapConfigured, app, ldap, call, page>>

PatchAsset_Update(n) ==
  /\ n \in InFlight("checked", "PATCH /api/assets/:id")
  /\ LET r == reqs[n]
     IN IF r.existingAsset # Undefined
        THEN Update(n, Respond(r, 400)) /\ UNCHANGED assets
        ELSE updateAsset(n, r, r.data)
  /\ UNCHANGED <<users, sessions, categories, adUsers, auditLogs, nextId,
                 ldapConfigured, app, ldap, call, page>>

\* the handler answering without writing its audit row
PatchAsset_Audit_RespondFirst(n) ==
  /\ n \in InFlight("audit", "PATCH /api/assets/:id")
  /\ Update(n, Respond(reqs[n], 200))
  /\ UNCHANGED <<users, sessions, categories, assets, adUsers, auditLogs,
                 nextId, ldapConfigured, app, ldap, call, page>>

PatchAsset_Audit(n) ==
  /\ n \in InFlight("audit", "PATCH /api/assets/:id")
  /\ LET r == reqs[n]
     IN /\ auditLogs' = createAuditLog(auditLogs,
             AuditRow(n, r, "asset", r.id, "update", Json(r.existing),
                      Json(r.result),
                      JsonChanges(getChanges(r.existing, r.data,
                                             AssetColumns))))
        /\ Update(n, Respond(Step(r, "audit"), 200))
  /\ UNCHANGED <<users, sessions, categories, assets, adUsers, nextId,
                 ldapConfigured, app, ldap, call, page>>

(***************************************************************************)
(* DELETE /api/assets/:id                                                  *)
(***************************************************************************)
DeleteAsset_Get(s, id) ==
  /\ CanStart
  /\ LET r == NewReq("DELETE /api/assets/:id", s, id, NULL)
         existing == JSONparse("row" \o ToString(Len(reqs) + 1), Get(assets, id))
     IN IF ~isAuthenticated(r.user)
        THEN Arrive(Respond(r, 401))
        ELSE Arrive([r EXCEPT !.pc = "got", !.existing = existing])
  /\ UNCHANGED <<users, sessions, categories, assets, adUsers, auditLogs,
                 nextId, ldapConfigured, app, ldap, call, page>>

DeleteAsset_Delete(n) ==
  /\ n \in InFlight("got", "DELETE /api/assets/:id")
  /\ LET r == reqs[n]
     IN IF r.existing = Undefined
        THEN Update(n, Respond(r, 404)) /\ UNCHANGED assets
        ELSE /\ assets' = Remove(assets, r.id)
             /\ Update(n, [Store(r, "asset", r.id, "delete",
                              r.id \in DOMAIN assets)
                             EXCEPT !.pc = "audit",
                                    !.deleted = r.id \in DOMAIN assets])
  /\ UNCHANGED <<users, sessions, categories, adUsers, auditLogs, nextId,
                 ldapConfigured, app, ldap, call, page>>

DeleteAsset_Audit(n) ==
  /\ n \in InFlight("audit", "DELETE /api/assets/:id")
  /\ LET r == reqs[n]
     IN /\ auditLogs' = createAuditLog(auditLogs,
             AuditRow(n, r, "asset", r.id, "delete", Json(r.existing),
                      NullJson, NullJson))
        /\ Update(n, Respond(Step(r, "audit"), 200))
  /\ UNCHANGED <<users, sessions, categories, assets, adUsers, nextId,
                 ldapConfigured, app, ldap, call, page>>

(***************************************************************************)
(* POST /api/ad-users                                                      *)
(***************************************************************************)
PostAdUser_Create(s, body) ==
  /\ CanStart
  /\ LET r == NewReq("POST /api/ad-users", s, NULL, body)
         data == zodData(body, AdUserColumns)
         user == AdUserRow(Uuid(nextId), data)
     IN IF ~isAuthenticated(r.user)
        THEN Arrive(Respond(r, 401)) /\ UNCHANGED <<adUsers, nextId>>
        ELSE IF ~insertAdUserSchema(body)
        THEN Arrive(Respond(r, 400)) /\ UNCHANGED <<adUsers, nextId>>
        ELSE IF ~AdUserConstraints(adUsers, user)
        THEN Arrive(Respond(Step(r, "validate"), 500))
             /\ UNCHANGED <<adUsers, nextId>>
        ELSE /\ adUsers' = Insert(adUsers, user)
             /\ nextId' = nextId + 1
             /\ Arrive([Store(Step(r, "validate"), "user", user.id, "create",
                           TRUE)
                          EXCEPT !.pc = "audit", !.data = data,
                                 !.result = user, !.id = user.id])
  /\ UNCHANGED <<users, sessions, categories, assets, auditLogs,
                 ldapConfigured, app, ldap, call, page>>

PostAdUser_Audit(n) ==
  /\ n \in InFlight("audit", "POST /api/ad-users")
  /\ LET r == reqs[n]
     IN /\ auditLogs' = createAuditLog(auditLogs,
             AuditRow(n, r, "user", r.result.id, "create", NullJson,
                      Json(r.result), NullJson))
        /\ Update(n, Respond(Step(r, "audit"), 201))
  /\ UNCHANGED <<users, sessions, categories, assets, adUsers, nextId,
                 ldapConfigured, app, ldap, call, page>>

(***************************************************************************)
(* PATCH /api/ad-users/:id                                                 *)
(***************************************************************************)
PatchAdUser_Get(s, id, body) ==
  /\ CanStart
  /\ LET r == NewReq("PATCH /api/ad-users/:id", s, id, body)
     IN IF ~isAuthenticated(r.user)
        THEN Arrive(Respond(r, 401))
        ELSE Arrive([r EXCEPT !.pc = "got", !.existing = Get(adUsers, id)])
  /\ UNCHANGED <<users, sessions, categories, assets, adUsers, auditLogs,
                 nextId, ldapConfigured, app, ldap, call, page>>

PatchAdUser_Update(n) ==
  /\ n \in InFlight("got", "PATCH /api/ad-users/:id")
  /\ LET r == reqs[n]
         data == zodData(r.body, AdUserColumns)
         before == Get(adUsers, r.id)
         user == IF before = Undefined THEN Undefined ELSE Merge(before, data)
     IN IF r.existing = Undefined
        THEN Update(n, Respond(r, 404)) /\ UNCHANGED adUsers
        ELSE IF ~insertAdUserSchemaPartial(r.body)
        THEN Update(n, Respond(r, 400)) /\ UNCHANGED adUsers
        ELSE IF user # Undefined /\ ~AdUserConstraints(adUsers, user)
        THEN Update(n, Respond(Step(r, "validate"), 500)) /\ UNCHANGED adUsers
        ELSE /\ adUsers' = IF user = Undefined THEN adUsers
                           ELSE [adUsers EXCEPT ![r.id] = user]
             /\ Update(n, [Store(Step(r, "validate"), "user", r.id, "update",
                              user # Undefined)
                             EXCEPT !.pc = "audit", !.data = data,
                                    !.result = user,
                                    !.before = before, !.after = user])
  /\ UNCHANGED <<users, sessions, categories, assets, auditLogs, nextId,
                 ldapConfigured, app, ldap, call, page>>

PatchAdUser_Audit(n) ==
  /\ n \in InFlight("audit", "PATCH /api/ad-users/:id")
  /\ LET r == reqs[n]
     IN /\ auditLogs' = createAuditLog(auditLogs,
             AuditRow(n, r, "user", r.id, "update", Json(r.existing),
                      Json(r.result),
                      JsonChanges(getChanges(r.existing, r.data,
                                             AdUserColumns))))
        /\ Update(n, Respond(Step(r, "audit"), 200))
  /\ UNCHANGED <<users, sessions, categories, assets, adUsers, nextId,
                 ldapConfigured, app, ldap, call, page>>

(***************************************************************************)
(* DELETE /api/ad-users/:id                                                *)
(***************************************************************************)
DeleteAdUser_Get(s, id) ==
  /\ CanStart
  /\ LET r == NewReq("DELETE /api/ad-users/:id", s, id, NULL)
     IN IF ~isAuthenticated(r.user)
        THEN Arrive(Respond(r, 401))
        ELSE Arrive([r EXCEPT !.pc = "got", !.existing = Get(adUsers, id)])
  /\ UNCHANGED <<users, sessions, categories, assets, adUsers, auditLogs,
                 nextId, ldapConfigured, app, ldap, call, page>>

DeleteAdUser_Delete(n) ==
  /\ n \in InFlight("got", "DELETE /api/ad-users/:id")
  /\ LET r == reqs[n]
     IN IF r.existing = Undefined
        THEN Update(n, Respond(r, 404)) /\ UNCHANGED adUsers
        ELSE IF r.id \in DOMAIN adUsers /\ AdUserReferenced(r.id)
        THEN Update(n, Respond(r, 500)) /\ UNCHANGED adUsers
        ELSE /\ adUsers' = Remove(adUsers, r.id)
             /\ Update(n, [Store(r, "user", r.id, "delete",
                              r.id \in DOMAIN adUsers)
                             EXCEPT !.pc = "audit",
                                    !.deleted = r.id \in DOMAIN adUsers])
  /\ UNCHANGED <<users, sessions, categories, assets, auditLogs, nextId,
                 ldapConfigured, app, ldap, call, page>>

DeleteAdUser_Audit(n) ==
  /\ n \in InFlight("audit", "DELETE /api/ad-users/:id")
  /\ LET r == reqs[n]
     IN /\ auditLogs' = createAuditLog(auditLogs,
             AuditRow(n, r, "user", r.id, "delete", Json(r.existing),
                      NullJson, NullJson))
        /\ Update(n, Respond(Step(r, "audit"), 200))
  /\ UNCHANGED <<users, sessions, categories, assets, adUsers, nextId,
                 ldapConfigured, app, ldap, call, page>>

(***************************************************************************)
(* server/ldap.ts                                                          *)
(***************************************************************************)
isLdapConfigured == ldapConfigured

\* syncAllUsers: the searchEntry handler keeps an entry that has a
\* displayName and an email or a sAMAccountName
RECURSIVE syncAllUsers(_)
syncAllUsers(entries) ==
  IF entries = <<>> THEN <<>>
  ELSE LET user == Head(entries)
           rest == syncAllUsers(Tail(entries))
       IN IF user.displayName # "" /\ (user.email # "" \/ user.sAMAccountName # "")
          THEN <<user>> \o rest
          ELSE rest

(***************************************************************************)
(* POST /api/ad-users/sync                                                 *)
(***************************************************************************)
\* the history of a sync keeps the users the directory returned and the
\* ad_users table as the request left it
SyncAnswer(r, status, table) ==
  [Respond(r, status) EXCEPT !.data = [ldapUsers |-> r.list],
                             !.after = [adUsers |-> table]]

\* ok: the LDAP bind and search succeed; entries: what the directory holds
Sync_Start(s, entries, ok) ==
  /\ CanStart
  /\ LET r == NewReq("POST /api/ad-users/sync", s, NULL, NULL)
         ldapUsers == syncAllUsers(entries)
     IN IF ~isAuthenticated(r.user)
        THEN Arrive(Respond(r, 401)) /\ UNCHANGED auditLogs
        ELSE IF ~isLdapConfigured
        THEN /\ auditLogs' = createAuditLog(auditLogs,
                  AuditRow(Len(reqs) + 1, r, "system", "ad-sync", "sync",
                           NullJson,
                           [action |-> "AD Sync triggered (LDAP not configured - simulated)"],
                           NullJson))
             /\ Arrive(Respond(Step(r, "audit"), 200))
        ELSE IF ~ok
        THEN Arrive(Respond(r, 500)) /\ UNCHANGED auditLogs
        ELSE /\ Arrive([r EXCEPT !.pc = "loop", !.list = ldapUsers,
                                 !.counts.total = Len(ldapUsers)])
             /\ UNCHANGED auditLogs
  /\ UNCHANGED <<users, sessions, categories, assets, adUsers, nextId,
                 ldapConfigured, app, ldap, call, page>>

Sync_GetByEmail(n) ==
  /\ n \in InFlight("loop", "POST /api/ad-users/sync")
  /\ reqs[n].idx <= Len(reqs[n].list)
  /\ LET r == reqs[n]
         ldapUser == r.list[r.idx]
     IN Update(n, [r EXCEPT !.pc = "write",
                            !.existing = getAdUserByEmail(ldapUser.email)])
  /\ UNCHANGED <<users, sessions, categories, assets, adUsers, auditLogs,
                 nextId, ldapConfigured, app, ldap, call, page>>

\* the loop forgetting to count the users it creates
Sync_Write_CreatedUncounted(n) ==
  /\ n \in InFlight("write", "POST /api/ad-users/sync")
  /\ reqs[n].existing = Undefined
  /\ LET r == reqs[n]
         ldapUser == r.list[r.idx]
         user == AdUserRow(Uuid(nextId),
                           [employeeId |-> IF ldapUser.employeeId # ""
                                           THEN ldapUser.employeeId
                                           ELSE ldapUser.sAMAccountName,
                            displayName |-> ldapUser.displayName,
                            email |-> ldapUser.email, isActive |-> TRUE])
     IN /\ AdUserConstraints(adUsers, user)
        /\ adUsers' = Insert(adUsers, user)
        /\ nextId' = nextId + 1
        /\ Update(n, [Store(r, "user", user.id, "create", TRUE)
                        EXCEPT !.pc = "loop", !.idx = @ + 1])
  /\ UNCHANGED <<users, sessions, categories, assets, auditLogs,
                 ldapConfigured, app, ldap, call, page>>

Sync_Write(n) ==
  /\ n \in InFlight("write", "POST /api/ad-users/sync")
  /\ LET r == reqs[n]
         ldapUser == r.list[r.idx]
         userData ==
           [employeeId |-> IF ldapUser.employeeId # "" THEN ldapUser.employeeId
                           ELSE ldapUser.sAMAccountName,
            displayName |-> ldapUser.displayName,
            email |-> ldapUser.email,
            isActive |-> TRUE]
         before == IF r.existing = Undefined THEN Undefined
                   ELSE Get(adUsers, r.existing.id)
         user == IF r.existing = Undefined
                 THEN AdUserRow(Uuid(nextId), userData)
                 ELSE IF before = Undefined THEN Undefined
                 ELSE Merge(before, userData)
     IN IF user # Undefined /\ ~AdUserConstraints(adUsers, user)
        THEN /\ Update(n, SyncAnswer(r, 500, adUsers))
             /\ UNCHANGED <<adUsers, nextId>>
        ELSE IF r.existing # Undefined
        THEN /\ adUsers' = IF user = Undefined THEN adUsers
                           ELSE [adUsers EXCEPT ![user.id] = user]
             /\ UNCHANGED nextId
             /\ Update(n, [Store(r, "user", r.existing.id, "update",
                                 user # Undefined)
                             EXCEPT !.pc = "loop", !.idx = @ + 1,
                                    !.existing = Undefined,
                                    !.counts.updated = @ + 1])
        ELSE /\ adUsers' = Insert(adUsers, user)
             /\ nextId' = nextId + 1
             /\ Update(n, [Store(r, "user", user.id, "create", TRUE)
                             EXCEPT !.pc = "loop", !.idx = @ + 1,
                                    !.counts.created = @ + 1])
  /\ UNCHANGED <<users, sessions, categories, assets, auditLogs,
                 ldapConfigured, app, ldap, call, page>>

Sync_Audit(n) ==
  /\ n \in InFlight("loop", "POST /api/ad-users/sync")
  /\ reqs[n].idx > Len(reqs[n].list)
  /\ LET r == reqs[n]
     IN /\ auditLogs' = createAuditLog(auditLogs,
             AuditRow(n, r, "system", "ad-sync", "sync", NullJson,
                      [action |-> "AD Sync completed",
                       totalUsers |-> Len(r.list),
                       created |-> r.counts.created,
                       updated |-> r.counts.updated],
                      NullJson))
        /\ Update(n, SyncAnswer(Step(r, "audit"), 200, adUsers))
  /\ UNCHANGED <<users, sessions, categories, assets, adUsers, nextId,
                 ldapConfigured, app, ldap, call, page>>

(***************************************************************************)
(* POST /api/import                                                        *)
(***************************************************************************)
\* !value
Falsy(row, key) == key \notin DOMAIN row \/ row[key] \in {"", NULL}

\* the synchronous part of the row loop: rows without assetTag or name are
\* counted failed without an await; the loop pauses at the first other row
\* the row loop leaving a row without assetTag or name uncounted
RECURSIVE SkipRows_NoCount(_, _, _)
SkipRows_NoCount(rows, idx, failed) ==
  IF idx > Len(rows) THEN [idx |-> idx, failed |-> failed]
  ELSE IF Falsy(rows[idx], "assetTag") \/ Falsy(rows[idx], "name")
  THEN SkipRows_NoCount(rows, idx + 1, failed)
  ELSE [idx |-> idx, failed |-> failed]

RECURSIVE SkipRows(_, _, _)
SkipRows(rows, idx, failed) ==
  IF idx > Len(rows) THEN [idx |-> idx, failed |-> failed]
  ELSE IF Falsy(rows[idx], "assetTag") \/ Falsy(rows[idx], "name")
  THEN SkipRows(rows, idx + 1, failed + 1)
  ELSE [idx |-> idx, failed |-> failed]

\* the row at idx is settled with `failed` more failures: on to the next row
NextRow(r, failed) ==
  LET skip == SkipRows(r.list, r.idx + 1, r.counts.failed + failed)
  IN [r EXCEPT !.pc = "loop", !.idx = skip.idx, !.counts.failed = skip.failed,
               !.existingAsset = Undefined, !.result = Undefined]

Import_Start(s, body) ==
  /\ CanStart
  /\ LET r == NewReq("POST /api/import", s, NULL, body)
     IN IF ~isAuthenticated(r.user)
        THEN Arrive(Respond(r, 401))
        ELSE IF "rows" \notin DOMAIN body
        THEN Arrive(Respond(r, 400))
        ELSE LET skip == SkipRows(body.rows, 1, 0)
             IN Arrive([Step(r, "validate")
                          EXCEPT !.pc = "loop", !.list = body.rows,
                                 !.idx = skip.idx,
                                 !.counts.total = Len(body.rows),
                                 !.counts.failed = skip.failed])
  /\ UNCHANGED <<users, sessions, categories, assets, adUsers, auditLogs,
                 nextId, ldapConfigured, app, ldap, call, page>>

Import_GetByTag(n) ==
  /\ n \in InFlight("loop", "POST /api/import")
  /\ reqs[n].idx <= Len(reqs[n].list)
  /\ LET r == reqs[n]
         row == r.list[r.idx]
     IN Update(n, [r EXCEPT !.pc = "checked",
                            !.existingAsset = getAssetByTag(row.assetTag)])
  /\ UNCHANGED <<users, sessions, categories, assets, adUsers, auditLogs,
                 nextId, ldapConfigured, app, ldap, call, page>>

Import_Create(n) ==
  /\ n \in InFlight("checked", "POST /api/import")
  /\ LET r == reqs[n]
         row == r.list[r.idx]
         status == IF ~Falsy(row, "status") /\ row.status \in ASSET_STATUSES
                   THEN row.status ELSE "active"
         assetData ==
           [assetTag |-> row.assetTag, name |-> row.name,
            categoryId |-> IF Falsy(r.body, "categoryId") THEN NULL
                           ELSE r.body.categoryId,
            status |-> status]
         asset == AssetRow(Uuid(nextId), assetData)
     IN IF r.existingAsset # Undefined
        THEN Update(n, NextRow(r, 1)) /\ UNCHANGED <<assets, nextId>>
        ELSE IF ~AssetConstraints(assets, asset)
        THEN Update(n, NextRow(r, 1)) /\ UNCHANGED <<assets, nextId>>
        ELSE /\ assets' = Insert(assets, asset)
             /\ nextId' = nextId + 1
             /\ Update(n, [Store(r, "asset", asset.id, "create", TRUE)
                             EXCEPT !.pc = "rowaudit", !.result = asset])
  /\ UNCHANGED <<users, sessions, categories, adUsers, auditLogs,
                 ldapConfigured, app, ldap, call, page>>

\* the row loop counting a stored row as failed
Import_RowAudit_CountsFailure(n) ==
  /\ n \in InFlight("rowaudit", "POST /api/import")
  /\ LET r == reqs[n]
     IN /\ auditLogs' = createAuditLog(auditLogs,
             AuditRow(n, r, "asset", r.result.id, "create", NullJson,
                      r.result @@ [source |-> "import"], NullJson))
        /\ Update(n, NextRow(Step(r, "audit"), 1))
  /\ UNCHANGED <<users, sessions, categories, assets, adUsers, nextId,
                 ldapConfigured, app, ldap, call, page>>

Import_RowAudit(n) ==
  /\ n \in InFlight("rowaudit", "POST /api/import")
  /\ LET r == reqs[n]
     IN /\ auditLogs' = createAuditLog(auditLogs,
             AuditRow(n, r, "asset", r.result.id, "create", NullJson,
                      r.result @@ [source |-> "import"], NullJson))
        /\ Update(n, [NextRow(Step(r, "audit"), 0)
                        EXCEPT !.counts.success = @ + 1])
  /\ UNCHANGED <<users, sessions, categories, assets, adUsers, nextId,
                 ldapConfigured, app, ldap, call, page>>

\* the summary row of an import written as the creation of an asset
Import_Audit_AsCreate(n) ==
  /\ n \in InFlight("loop", "POST /api/import")
  /\ reqs[n].idx > Len(reqs[n].list)
  /\ LET r == reqs[n]
     IN /\ auditLogs' = createAuditLog(auditLogs,
             AuditRow(n, r, "asset", "import", "create", NullJson,
                      [totalRows |-> Len(r.list),
                       success |-> r.counts.success,
                       failed |-> r.counts.failed],
                      NullJson))
        /\ Update(n, Respond(Step(r, "audit"), 200))
  /\ UNCHANGED <<users, sessions, categories, assets, adUsers, nextId,
                 ldapConfigured, app, ldap, call, page>>

Import_Audit(n) ==
  /\ n \in InFlight("loop", "POST /api/import")
  /\ reqs[n].idx > Len(reqs[n].list)
  /\ LET r == reqs[n]
     IN /\ auditLogs' = createAuditLog(auditLogs,
             AuditRow(n, r, "system", "import", "import", NullJson,
                      [totalRows |-> Len(r.list),
                       success |-> r.counts.success,
                       failed |-> r.counts.failed],
                      NullJson))
        /\ Update(n, Respond(Step(r, "audit"), 200))
  /\ UNCHANGED <<users, sessions, categories, assets, adUsers, nextId,
                 ldapConfigured, app, ldap, call, page>>

(***************************************************************************)
(* Specification                                                           *)
(***************************************************************************)
Next ==
  \/ \E s \in Sessions, body \in RegisterBodies : Register_GetByEmail(s, body)
  \/ \E n \in DOMAIN reqs : Register_Insert(n)
  \/ \E s \in Sessions, body \in LoginBodies : Login(s, body)
  \/ \E s \in Sessions : Logout(s)
  \/ \E s \in Sessions : GetAuthUser_Start(s)
  \/ \E n \in DOMAIN reqs : GetAuthUser_Get(n)
  \/ \E s \in Sessions, body \in CategoryBodies : PostCategory_Create(s, body)
  \/ \E n \in DOMAIN reqs : PostCategory_Audit(n)
  \/ \E s \in Sessions, id \in DOMAIN categories \cup {NoSuchId},
        body \in CategoryBodies : PatchCategory_Get(s, id, body)
  \/ \E n \in DOMAIN reqs : PatchCategory_Update(n)
  \/ \E n \in DOMAIN reqs : PatchCategory_Audit(n)
  \/ \E s \in Sessions, id \in DOMAIN categories \cup {NoSuchId} :
        DeleteCategory_Get(s, id)
  \/ \E n \in DOMAIN reqs : DeleteCategory_Delete(n)
  \/ \E n \in DOMAIN reqs : DeleteCategory_Audit(n)
  \/ \E s \in Sessions, body \in AssetBodies : PostAsset_GetByTag(s, body)
  \/ \E n \in DOMAIN reqs : PostAsset_Create(n)
  \/ \E n \in DOMAIN reqs : PostAsset_Audit(n)
  \/ \E s \in Sessions, id \in DOMAIN assets \cup {NoSuchId},
        body \in AssetPatches : PatchAsset_Get(s, id, body)
  \/ \E n \in DOMAIN reqs : PatchAsset_Validate(n)
  \/ \E n \in DOMAIN reqs : PatchAsset_Update(n)
  \/ \E n \in DOMAIN reqs : PatchAsset_Audit(n)
  \/ \E s \in Sessions, id \in DOMAIN assets \cup {NoSuchId} :
        DeleteAsset_Get(s, id)
  \/ \E n \in DOMAIN reqs : DeleteAsset_Delete(n)
  \/ \E n \in DOMAIN reqs : DeleteAsset_Audit(n)
  \/ \E s \in Sessions, body \in AdUserBodies : PostAdUser_Create(s, body)
  \/ \E n \in DOMAIN reqs : PostAdUser_Audit(n)
  \/ \E s \in Sessions, id \in DOMAIN adUsers \cup {NoSuchId},
        body \in AdUserPatches : PatchAdUser_Get(s, id, body)
  \/ \E n \in DOMAIN reqs : PatchAdUser_Update(n)
  \/ \E n \in DOMAIN reqs : PatchAdUser_Audit(n)
  \/ \E s \in Sessions, id \in DOMAIN adUsers \cup {NoSuchId} :
        DeleteAdUser_Get(s, id)
  \/ \E n \in DOMAIN reqs : DeleteAdUser_Delete(n)
  \/ \E n \in DOMAIN reqs : DeleteAdUser_Audit(n)
  \/ \E s \in Sessions, entries \in Directories, ok \in BOOLEAN :
        Sync_Start(s, entries, ok)
  \/ \E n \in DOMAIN reqs : Sync_GetByEmail(n)
  \/ \E n \in DOMAIN reqs : Sync_Write(n)
  \/ \E n \in DOMAIN reqs : Sync_Audit(n)
  \/ \E s \in Sessions, body \in ImportBodies : Import_Start(s, body)
  \/ \E n \in DOMAIN reqs : Import_GetByTag(n)
  \/ \E n \in DOMAIN reqs : Import_Create(n)
  \/ \E n \in DOMAIN reqs : Import_RowAudit(n)
  \/ \E n \in DOMAIN reqs : Import_Audit(n)

Spec == Init /\ [][Next]_vars

\* the server from the start of the process on
\* requests served one after the other: a request arrives only when every
\* earlier one has been answered
SeqNext ==
  /\ Next
  /\ Len(reqs') > Len(reqs) => \A n \in DOMAIN reqs : reqs[n].pc = "done"

SeqSpec == Init /\ [][SeqNext]_vars

\* the account of u3 was disabled after its session s2 had been established
DisabledInit ==
  /\ InitTables
  /\ sessions = [s \in Sessions |-> IF s = "s1" THEN "u1" ELSE "u3"]
  /\ ldap = NoClient
  /\ page = ImportPage
  /\ call = NoCall
  /\ app = ListeningApp

DisabledSpec == DisabledInit /\ [][Next]_vars

BootNext == registerRoutes \/ Next

BootSpec == BootInit /\ [][BootNext]_vars

(***************************************************************************)
(* Properties                                                              *)
(***************************************************************************)
CrudRoutes ==
  { "POST /api/categories", "PATCH /api/categories/:id",
    "DELETE /api/categories/:id", "POST /api/assets", "PATCH /api/assets/:id",
    "DELETE /api/assets/:id", "POST /api/ad-users", "PATCH /api/ad-users/:id",
    "DELETE /api/ad-users/:id" }

BodyRoutes ==
  { "POST /api/categories", "PATCH /api/categories/:id", "POST /api/assets",
    "PATCH /api/assets/:id", "POST /api/ad-users", "PATCH /api/ad-users/:id",
    "POST /api/import" }

MutatingRoutes == CrudRoutes \cup {"POST /api/ad-users/sync", "POST /api/import"}

EntityTypeOf(route) ==
  IF route \in {"POST /api/categories", "PATCH /api/categories/:id",
                "DELETE /api/categories/:id"} THEN "category"
  ELSE IF route \in {"POST /api/assets", "PATCH /api/assets/:id",
                     "DELETE /api/assets/:id"} THEN "asset"
  ELSE "user"

ActionOf(route) ==
  IF route \in {"POST /api/categories", "POST /api/assets", "POST /api/ad-users"}
  THEN "create"
  ELSE IF route \in {"PATCH /api/categories/:id", "PATCH /api/assets/:id",
                     "PATCH /api/ad-users/:id"} THEN "update"
  ELSE "delete"

Success(r) == r.pc = "done" /\ r.status \in 200..299

\* the audit rows request n wrote
RowsOf(n) == {i \in DOMAIN auditLogs : auditLogs[i].req = n}

Positions(trace, label) == {i \in DOMAIN trace : trace[i] = label}

\* C1: a create, update or delete request of a category, asset or AD user that
\* is answered with a 2xx status has written exactly one audit row; the row
\* names the entity type, the entity id and the action of the request and
\* carries the id and the name (full name, or e-mail address) of the user of
\* the request's session.
C1_SuccessWritesOneAuditRow ==
  \A n \in DOMAIN reqs :
    LET r == reqs[n]
    IN (r.route \in CrudRoutes /\ Success(r)) =>
         /\ Cardinality(RowsOf(n)) = 1
         /\ \A i \in RowsOf(n) :
              /\ auditLogs[i].entityType = EntityTypeOf(r.route)
              /\ auditLogs[i].entityId = r.id
              /\ auditLogs[i].action = ActionOf(r.route)
              /\ auditLogs[i].userId = r.user.id
              /\ auditLogs[i].userName \in
                   {users[r.user.id].firstName \o " " \o users[r.user.id].lastName,
                    users[r.user.id].firstName, users[r.user.id].email} \ {""}

C1_Witness ==
  \E n \in DOMAIN reqs :
    /\ reqs[n].route = "PATCH /api/assets/:id"
    /\ Success(reqs[n])
    /\ reqs[n].user.id = "u2"
    /\ \E i \in RowsOf(n) : auditLogs[i].userName = "bob@x.io"

\* C2: once every request has been answered, each row a request inserted,
\* changed or removed in categories, assets or ad_users has an audit row with
\* that entity type, entity id and action.
C2_EveryChangeAudited ==
  (\A n \in DOMAIN reqs : reqs[n].pc = "done") =>
    \A n \in DOMAIN reqs :
      \A k \in DOMAIN reqs[n].writes :
        \E i \in DOMAIN auditLogs :
          /\ auditLogs[i].entityType = reqs[n].writes[k].entityType
          /\ auditLogs[i].entityId = reqs[n].writes[k].entityId
          /\ auditLogs[i].action = reqs[n].writes[k].action

\* C3: in a mutating route a storage write comes after the body has passed
\* validation, an entity's audit row is written right after its storage write
\* has returned (the summary row of an import right before the response), a
\* 2xx response comes right after an audit write, and nothing follows the
\* response; the audit rows in the table are those the steps have written.
C3_StepOrder ==
  \A n \in DOMAIN reqs :
    LET r == reqs[n]
        t == r.trace
    IN r.route \in MutatingRoutes =>
         /\ r.route \in BodyRoutes =>
              \A i \in Positions(t, "store") :
                \E j \in Positions(t, "validate") : j < i
         /\ r.route \in CrudRoutes \cup {"POST /api/import"} =>
              \A i \in Positions(t, "audit") :
                \/ i > 1 /\ t[i - 1] = "store"
                \/ r.route = "POST /api/import" /\ i + 1 \in Positions(t, "respond")
         /\ Success(r) =>
              /\ Len(t) >= 2
              /\ t[Len(t) - 1] = "audit"
         /\ \A i \in Positions(t, "respond") : i = Len(t) /\ r.pc = "done"
         /\ Cardinality(RowsOf(n)) = Cardinality(Positions(t, "audit"))

C3_Witness ==
  /\ \E n \in DOMAIN reqs :
       /\ reqs[n].route = "PATCH /api/categories/:id"
       /\ reqs[n].trace = <<"validate", "store", "audit", "respond">>
  /\ \E n \in DOMAIN reqs :
       /\ reqs[n].route = "POST /api/import"
       /\ Success(reqs[n])
       /\ reqs[n].counts.success >= 1

\* C4: no step changes or removes an audit row: the rows of the audit log
\* before a step are, in order, the first rows of the log after it.
C4_AuditRowsImmutable ==
  [][ /\ Len(auditLogs') >= Len(auditLogs)
      /\ \A i \in DOMAIN auditLogs : auditLogs'[i] = auditLogs[i] ]_vars

C4_Witness ==
  /\ Len(auditLogs) >= 5
  /\ \E i, j \in DOMAIN auditLogs :
       /\ i < j
       /\ auditLogs[i].req > 0
       /\ auditLogs[i].entityType = auditLogs[j].entityType
       /\ auditLogs[i].entityId = auditLogs[j].entityId

\* C5: the audit row of an update holds in previousData the stored row as it
\* was right before that request's UPDATE statement and in newData the stored
\* row right after it.
C5_TrueSnapshots ==
  \A i \in DOMAIN auditLogs :
    (auditLogs[i].action = "update" /\ auditLogs[i].req > 0) =>
      /\ auditLogs[i].previousData = Json(reqs[auditLogs[i].req].before)
      /\ auditLogs[i].newData = Json(reqs[auditLogs[i].req].after)

\* C6: no two assets have the same assetTag, and the step of a request that
\* has passed its tag lookup and is about to store a tag another asset holds
\* by now leaves the assets table as it is.
TagTaken(r) ==
  \E a \in DOMAIN assets :
    /\ a # r.id
    /\ assets[a].assetTag =
         IF r.route = "POST /api/import" THEN r.list[r.idx].assetTag
         ELSE r.data.assetTag

C6_AssetTagsUnique ==
  [][ /\ \A a, b \in DOMAIN assets' :
           a # b => assets'[a].assetTag # assets'[b].assetTag
      /\ \A n \in DOMAIN reqs :
           (/\ reqs[n].pc = "checked"
            /\ reqs[n].route # "POST /api/auth/register"
            /\ TagTaken(reqs[n])
            /\ reqs'[n].pc # "checked") => assets' = assets ]_vars

C6_Witness ==
  \E n \in DOMAIN reqs :
    /\ reqs[n].pc = "checked"
    /\ reqs[n].route \in {"POST /api/assets", "PATCH /api/assets/:id"}
    /\ reqs[n].existingAsset = Undefined
    /\ TagTaken(reqs[n])
    /\ Cardinality(DOMAIN assets) >= 2

\* C7: the status of every stored asset is one of ASSET_STATUSES.
C7_StatusInEnumeration ==
  \A a \in DOMAIN assets : assets[a].status \in ASSET_STATUSES

\* C8: a request to a mutating route on a session without a user is answered
\* 401 at once, and that step changes no category, asset, AD user or audit
\* row; a request that has been answered takes no further step.
NoSessionUser(s) == sessions[s] = NULL \/ sessions[s] \notin DOMAIN users

C8_MutatingRoutesProtected ==
  [][ /\ Len(reqs') = Len(reqs) + 1 =>
           LET r == reqs'[Len(reqs')]
           IN (r.route \in MutatingRoutes /\ NoSessionUser(r.sess)) =>
                /\ r.pc = "done"
                /\ r.status = 401
                /\ UNCHANGED <<categories, assets, adUsers, auditLogs>>
      /\ \A n \in DOMAIN reqs : reqs[n].pc = "done" => reqs'[n] = reqs[n] ]_vars

C8_Witness ==
  \E n \in DOMAIN reqs :
    /\ reqs[n].route = "POST /api/import"
    /\ reqs[n].status = 401
    /\ \E m \in DOMAIN reqs :
         /\ m < n
         /\ reqs[m].route = "POST /api/auth/logout"
         /\ reqs[m].sess = reqs[n].sess

\* C9: a request of a user with role readonly to a mutating route is
\* answered 403.
C9_ReadonlyForbidden ==
  \A n \in DOMAIN reqs :
    LET r == reqs[n]
    IN (/\ r.route \in MutatingRoutes
        /\ r.pc = "done"
        /\ r.user # Undefined
        /\ r.user.role = "readonly") => r.status = 403

\* C10: the step of POST /api/auth/login puts a user into the session exactly
\* when a user with the lower-cased email exists, is active and the password
\* matches the stored hash, and it is that user; otherwise the answer is 400
\* or 401 and the session is as it was (a session without user stays so).
Credentials(body) ==
  {u \in DOMAIN users :
     /\ {"email", "password"} \subseteq DOMAIN body
     /\ users[u].email = toLowerCase(body.email)
     /\ users[u].isActive
     /\ users[u].password = bcryptHash(body.password)}

C10_LoginOnlyWithCredentials ==
  [][ Len(reqs') = Len(reqs) + 1 =>
        LET r == reqs'[Len(reqs')]
        IN r.route = "POST /api/auth/login" =>
             IF Credentials(r.data) # {}
             THEN /\ r.status = 200
                  /\ sessions'[r.sess] \in Credentials(r.data)
                  /\ \A s \in Sessions \ {r.sess} : sessions'[s] = sessions[s]
             ELSE /\ r.status \in {400, 401}
                  /\ sessions' = sessions ]_vars

C10_Witness ==
  /\ sessions["s2"] = "u1"
  /\ \E n \in DOMAIN reqs :
       /\ reqs[n].route = "POST /api/auth/login"
       /\ reqs[n].status = 401
       /\ reqs[n].data.email = "cy@x.io"

\* C11: with NODE_ENV production and SESSION_SECRET not set the server never
\* gets to serve: getSession throws, no session middleware is installed and no
\* request is handled; with another NODE_ENV and SESSION_SECRET not set the
\* start succeeds and the session middleware uses the development secret.
C11_ProductionNeedsSecret ==
  /\ (app.env.NODE_ENV = "production" /\ app.env.SESSION_SECRET = Unset) =>
       /\ app.state \in {"starting", "failed"}
       /\ app.session = Undefined
       /\ reqs = <<>>
  /\ (/\ app.env.NODE_ENV # "production"
      /\ app.env.SESSION_SECRET = Unset
      /\ app.state # "starting") =>
       /\ app.state = "listening"
       /\ app.session # Undefined
       /\ app.session.secret = DevSecret

C11_Witness ==
  /\ app.env = [NODE_ENV |-> "production", SESSION_SECRET |-> Unset]
  /\ app.state = "failed"
\* C12: after every step each asset's categoryId is null or the id of a stored
\* category and its assignedUserId is null or the id of a stored AD user; the
\* step of a DELETE request that comes to delete a category or AD user an
\* asset references answers 500 and changes no category, AD user or audit row.
StillReferenced(r) ==
  \/ /\ r.route = "DELETE /api/categories/:id"
     /\ \E a \in DOMAIN assets : assets[a].categoryId = r.id
  \/ /\ r.route = "DELETE /api/ad-users/:id"
     /\ \E a \in DOMAIN assets : assets[a].assignedUserId = r.id

C12_ForeignKeysHold ==
  [][ /\ \A a \in DOMAIN assets' :
           /\ assets'[a].categoryId \in {NULL} \cup DOMAIN categories'
           /\ assets'[a].assignedUserId \in {NULL} \cup DOMAIN adUsers'
      /\ \A n \in DOMAIN reqs :
           (/\ reqs[n].pc = "got"
            /\ reqs[n].existing # Undefined
            /\ StillReferenced(reqs[n])
            /\ reqs'[n].pc # "got") =>
             /\ reqs'[n].pc = "done"
             /\ reqs'[n].status = 500
             /\ reqs'[n].writes = <<>>
             /\ UNCHANGED <<categories, adUsers, assets, auditLogs>> ]_vars

C12_Witness ==
  /\ \E n \in DOMAIN reqs :
       /\ reqs[n].route = "DELETE /api/categories/:id"
       /\ reqs[n].status = 500
       /\ \E a \in DOMAIN assets : assets[a].categoryId = reqs[n].id
  /\ \A i \in DOMAIN auditLogs : auditLogs[i].action # "delete"
\* C13: each category's parentId is null or the id of a stored category, and
\* following the parentId links from any category ends at a category whose
\* parentId is null.
RECURSIVE ReachesRoot(_, _)
ReachesRoot(id, hops) ==
  IF categories[id].parentId = NULL THEN TRUE
  ELSE IF hops = 0 \/ categories[id].parentId \notin DOMAIN categories THEN FALSE
  ELSE ReachesRoot(categories[id].parentId, hops - 1)

C13_CategoryHierarchy ==
  \A c \in DOMAIN categories :
    /\ categories[c].parentId \in {NULL} \cup DOMAIN categories
    /\ ReachesRoot(c, Cardinality(DOMAIN categories))
\* C14: the action of every audit row is create, update or delete.
C14_ActionIsCreateUpdateDelete ==
  \A i \in DOMAIN auditLogs :
    auditLogs[i].action \in {"create", "update", "delete"}

\* C14 as amended: an audit row about a category, an asset or an AD user has
\* the action create, update or delete and names a generated id; the only
\* other rows are the summary rows of entity type system: action sync with
\* entity id ad-sync, and action import with entity id import.
C14_ActionsOfAuditRows ==
  \A i \in DOMAIN auditLogs :
    LET row == auditLogs[i]
    IN \/ /\ row.entityType \in {"category", "asset", "user"}
          /\ row.action \in {"create", "update", "delete"}
          /\ row.entityId \notin {"ad-sync", "import"}
       \/ /\ row.entityType = "system"
          /\ <<row.entityId, row.action>> \in
               {<<"ad-sync", "sync">>, <<"import", "import">>}

C14_Witness ==
  /\ \E i \in DOMAIN auditLogs : auditLogs[i].action = "sync"
  /\ \E i \in DOMAIN auditLogs : auditLogs[i].action = "import"
  /\ \E i \in DOMAIN auditLogs :
       auditLogs[i].action = "create" /\ auditLogs[i].req > 0
\* C15: a registration looks the email up lower-cased, so it finds a user
\* exactly when one has the submitted email up to letter case; a registration
\* whose lookup found a user is answered 400 and stores no user; after every
\* step the stored emails are lower-case and no two users share an email.
C15_EmailsUniqueIgnoringCase ==
  [][ /\ Len(reqs') = Len(reqs) + 1 =>
           LET r == reqs'[Len(reqs')]
           IN (r.route = "POST /api/auth/register" /\ r.pc = "checked") =>
                (r.existing # Undefined <=>
                   \E u \in DOMAIN users :
                     toLowerCase(users[u].email) = toLowerCase(r.data.email))
      /\ \A n \in DOMAIN reqs :
           (/\ reqs[n].route = "POST /api/auth/register"
            /\ reqs[n].pc = "checked"
            /\ reqs[n].existing # Undefined
            /\ reqs'[n].pc # "checked") =>
             /\ reqs'[n].status = 400
             /\ users' = users
      /\ \A u \in DOMAIN users' : users'[u].email = toLowerCase(users'[u].email)
      /\ \A u, v \in DOMAIN users' :
           u # v => users'[u].email # users'[v].email ]_vars

C15_Witness ==
  /\ \E n \in DOMAIN reqs :
       /\ reqs[n].route = "POST /api/auth/register"
       /\ reqs[n].status = 400
       /\ reqs[n].data.email = "ANN@x.io"
  /\ \E n \in DOMAIN reqs :
       /\ reqs[n].route = "POST /api/auth/register"
       /\ reqs[n].status = 201
       /\ reqs[n].data.email = "New@x.io"
       /\ users[reqs[n].id].email = "new@x.io"
\* C16: for the old row and the parsed body of every update request,
\* getChanges returns one entry {field, oldValue, newValue} for each key of the
\* body whose value is not strictly equal to the old row's, in the key order
\* of the body, and no other entry.
ColumnsOf(route) ==
  IF EntityTypeOf(route) = "category" THEN CategoryColumns
  ELSE IF EntityTypeOf(route) = "asset" THEN AssetColumns
  ELSE AdUserColumns

ColumnIndex(columns, k) == CHOOSE i \in DOMAIN columns : columns[i] = k

Auditing(r) ==
  r.pc = "audit" /\ r.route \in CrudRoutes /\ ActionOf(r.route) = "update"

ChangesOf(r) == getChanges(r.existing, r.data, ColumnsOf(r.route))

C16_GetChangesEntries ==
  \A n \in DOMAIN reqs :
    LET r == reqs[n]
    IN Auditing(r) =>
         LET result == ChangesOf(r)
             changed == {k \in DOMAIN r.data : r.existing[k] # r.data[k]}
         IN /\ {result[i].field : i \in DOMAIN result} = changed
            /\ Len(result) = Cardinality(changed)
            /\ \A i \in DOMAIN result :
                 /\ result[i].oldValue = r.existing[result[i].field]
                 /\ result[i].newValue = r.data[result[i].field]
                 /\ DOMAIN result[i] = {"field", "oldValue", "newValue"}
            /\ \A i, j \in DOMAIN result :
                 i < j => ColumnIndex(ColumnsOf(r.route), result[i].field)
                            < ColumnIndex(ColumnsOf(r.route), result[j].field)

C16_Witness ==
  /\ \E n \in DOMAIN reqs :
       Auditing(reqs[n]) /\ Len(ChangesOf(reqs[n])) = 2
  /\ \E n \in DOMAIN reqs :
       /\ Auditing(reqs[n])
       /\ Len(ChangesOf(reqs[n])) = 1
       /\ Cardinality(DOMAIN reqs[n].data) = 2

\* C17: each entry of the changes of an update audit row names a field whose
\* value in previousData differs from its value in newData.
C17_ChangesAreRealChanges ==
  \A i \in DOMAIN auditLogs :
    LET row == auditLogs[i]
    IN (row.action = "update" /\ row.req > 0 /\ row.newData # NullJson) =>
         \A j \in DOMAIN row.changes.list :
           row.previousData[row.changes.list[j].field]
             # row.newData[row.changes.list[j].field]
\* C18: the step that answers a request with a 4xx status changes no category,
\* asset, AD user, user or audit row, and no earlier step of that request has
\* inserted, changed or removed a row or written an audit row.
Refused(r) == r.pc = "done" /\ r.status \in 400..499

C18_RefusalChangesNothing ==
  [][ \A n \in DOMAIN reqs' :
        (/\ Refused(reqs'[n])
         /\ n \in DOMAIN reqs => reqs[n].pc # "done") =>
          /\ UNCHANGED <<categories, assets, adUsers, users, auditLogs>>
          /\ reqs'[n].writes = <<>>
          /\ \A i \in DOMAIN auditLogs' : auditLogs'[i].req # n ]_vars

C18_Witness ==
  /\ \E n \in DOMAIN reqs :
       /\ reqs[n].route = "POST /api/assets"
       /\ reqs[n].status = 400
       /\ "validate" \in Range(reqs[n].trace)
  /\ \E n \in DOMAIN reqs :
       /\ reqs[n].route \in {"PATCH /api/ad-users/:id",
                             "DELETE /api/categories/:id"}
       /\ reqs[n].status = 404
\* C19: POST /api/import settles its rows one by one, each as a success or as
\* a failure: between rows success + failed is the number of rows settled; a
\* row without assetTag or name is a failure; the tag lookup finds an asset
\* exactly when one with the row's tag is stored, and then the row is a
\* failure and no asset is added; the request ends after the last row with
\* status 200, success + failed = total = the number of rows, and one audit
\* row of action import holding these counts.
Incomplete(rows) ==
  {i \in DOMAIN rows : Falsy(rows[i], "assetTag") \/ Falsy(rows[i], "name")}

C19_ImportCountsEachRowOnce ==
  [][ \A n \in DOMAIN reqs :
        LET r == reqs[n]
            q == reqs'[n]
        IN r.route = "POST /api/import" =>
             /\ q.pc = "loop" =>
                  /\ q.counts.success + q.counts.failed = q.idx - 1
                  /\ q.counts.total = Len(q.list)
                  /\ q.counts.failed >=
                       Cardinality(Incomplete(q.list) \cap 1..(q.idx - 1))
             /\ (r.pc = "loop" /\ q.pc = "checked") =>
                  (q.existingAsset # Undefined <=>
                     \E a \in DOMAIN assets :
                       assets[a].assetTag = r.list[r.idx].assetTag)
             /\ (r.pc = "checked" /\ r.existingAsset # Undefined
                   /\ q.pc # "checked") =>
                  /\ q.counts.failed > r.counts.failed
                  /\ q.counts.success = r.counts.success
                  /\ assets' = assets
             /\ (r.pc = "loop" /\ q.pc = "done") =>
                  /\ q.status = 200
                  /\ q.counts.total = Len(r.list)
                  /\ q.counts.success + q.counts.failed = q.counts.total
                  /\ q.counts.failed >= Cardinality(Incomplete(r.list))
                  /\ Len(auditLogs') = Len(auditLogs) + 1
                  /\ \A i \in DOMAIN auditLogs' :
                       (auditLogs'[i].req = n
                          /\ auditLogs'[i].action = "import") <=>
                       i = Len(auditLogs')
                  /\ auditLogs'[Len(auditLogs')].newData =
                       [totalRows |-> q.counts.total,
                        success |-> q.counts.success,
                        failed |-> q.counts.failed] ]_vars

C19_Witness ==
  \E n \in DOMAIN reqs :
    LET r == reqs[n]
    IN /\ r.route = "POST /api/import"
       /\ r.pc = "loop"
       /\ Len(r.list) = 2
       /\ r.idx > Len(r.list)
       /\ r.list[1].assetTag = r.list[2].assetTag
       /\ r.counts.success = 1
       /\ r.counts.failed = 1
DeleteRoutes ==
  {"DELETE /api/categories/:id", "DELETE /api/assets/:id",
   "DELETE /api/ad-users/:id"}

C21_DeleteRecordedOnce ==
  /\ \A n, m \in DOMAIN reqs :
       (/\ n # m
        /\ reqs[n].route \in DeleteRoutes
        /\ reqs[m].route = reqs[n].route
        /\ reqs[m].id = reqs[n].id) => ~(reqs[n].deleted /\ reqs[m].deleted)
  /\ \A i, j \in DOMAIN auditLogs :
       (/\ auditLogs[i].action = "delete"
        /\ auditLogs[j].action = "delete"
        /\ auditLogs[i].entityType = auditLogs[j].entityType
        /\ auditLogs[i].entityId = auditLogs[j].entityId) => i = j
  /\ \A n \in DOMAIN reqs :
       (reqs[n].route \in DeleteRoutes /\ reqs[n].pc = "done"
          /\ ~reqs[n].deleted) => RowsOf(n) = {}
\* C22: with LDAP configured a sync that ends with status 200 has gone through
\* all users the directory returned, counting each as created or as updated:
\* created + updated = synced = the number of returned users; when no other
\* request ran, each returned user then has exactly one AD-user record with
\* its displayName and email and isActive true, and the AD user stored before
\* is unchanged unless the directory returned its email.
SyncRecords(ldapUser, table) ==
  {u \in DOMAIN table : /\ table[u].email = ldapUser.email
                        /\ table[u].displayName = ldapUser.displayName
                        /\ table[u].isActive}

C23_SyncIsIdempotent ==
  /\ \A n, m \in DOMAIN reqs :
       (/\ m = n + 1
        /\ reqs[n].route = "POST /api/ad-users/sync"
        /\ reqs[m].route = "POST /api/ad-users/sync"
        /\ reqs[n].pc = "done" /\ reqs[m].pc = "done"
        /\ reqs[n].status = 200
        /\ reqs[n].data # Undefined
        /\ reqs[m].data = reqs[n].data) =>
         /\ reqs[m].status = 200
         /\ reqs[m].counts.created = 0
         /\ reqs[m].after = reqs[n].after
  /\ \A u, v \in DOMAIN adUsers :
       (\/ adUsers[u].email = adUsers[v].email
        \/ adUsers[u].employeeId = adUsers[v].employeeId) => u = v

(***************************************************************************)
(* The LDAP client of one syncAllUsers call (server/ldap.ts)               *)
(*                                                                         *)
(* ldap.pc: idle, bind (createClient awaits the bind), bound (the await    *)
(* of createClient is about to resume), search (the search is issued),     *)
(* result (the search callback registered the res handlers), over (the     *)
(* search ended or failed), closed (no search was issued).  ldap.created   *)
(* is createClient's promise, ldap.promise the one syncAllUsers returns,   *)
(* ldap.events the calls and events in the order they happened.  What      *)
(* ldapjs delivers for a search whose client is destroyed is not in the    *)
(* source: the callback and the res events stay possible in any order the  *)
(* handlers allow.                                                         *)
(***************************************************************************)
LdapEntries == {LdapDana, LdapEve, LdapPrinter}

DirectoryContents == UNION {[1..k -> LdapEntries] : k \in 0..MaxRows}

OtherVars ==
  <<users, sessions, categories, assets, adUsers, auditLogs, nextId,
    ldapConfigured, reqs, app>>

\* client.destroy()
destroy(l) ==
  [l EXCEPT !.client = "destroyed", !.events = Append(@, "destroy")]

\* getLdapConfig, then createClient: ldap.createClient and client.bind
syncAllUsers_Call(entries) ==
  /\ ldap.pc = "idle"
  /\ ldap' = IF ~ldapConfigured
             THEN [ldap EXCEPT !.pc = "closed", !.promise = "rejected",
                               !.events = Append(@, "throw")]
             ELSE [ldap EXCEPT !.pc = "bind", !.client = "open",
                               !.promise = "pending", !.directory = entries,
                               !.events = Append(@, "bind")]
  /\ UNCHANGED <<OtherVars, call, page>>

\* client.on("error"): createClient rejects; syncAllUsers leaves through
\* finally with client still null
createClient_onError ==
  /\ ldap.pc = "bind"
  /\ ldap.created = "pending"
  /\ ldap' = [ldap EXCEPT !.created = "rejected", !.promise = "rejected",
                          !.events = Append(@, "clientError")]
  /\ UNCHANGED <<OtherVars, call, page>>

\* the bind callback
createClient_onBind(err) ==
  /\ ldap.pc = "bind"
  /\ ldap' =
       IF err
       THEN [destroy(ldap) EXCEPT !.pc = "closed",
               !.created = IF @ = "pending" THEN "rejected" ELSE @,
               !.promise = "rejected"]
       ELSE IF ldap.created = "pending"
       THEN [ldap EXCEPT !.pc = "bound", !.created = "resolved"]
       ELSE [ldap EXCEPT !.pc = "closed"]
  /\ UNCHANGED <<OtherVars, call, page>>

\* after the await: the promise's executor issues client.search, the
\* promise is returned without await and finally destroys the client
syncAllUsers_Search ==
  /\ ldap.pc = "bound"
  /\ ldap' = destroy([ldap EXCEPT !.pc = "search",
                                  !.events = Append(@, "search")])
  /\ UNCHANGED <<OtherVars, call, page>>

\* the search callback (err, res)
search_Callback(err) ==
  /\ ldap.pc = "search"
  /\ ldap' = IF err
             THEN [ldap EXCEPT !.pc = "over", !.promise = "rejected",
                               !.events = Append(@, "error")]
             ELSE [ldap EXCEPT !.pc = "result"]
  /\ UNCHANGED <<OtherVars, call, page>>

res_onSearchEntry ==
  /\ ldap.pc = "result"
  /\ ldap.delivered < Len(ldap.directory)
  /\ ldap' = [ldap EXCEPT
       !.delivered = @ + 1,
       !.users = @ \o syncAllUsers(<<ldap.directory[ldap.delivered + 1]>>),
       !.events = Append(@, "searchEntry")]
  /\ UNCHANGED <<OtherVars, call, page>>

res_onError ==
  /\ ldap.pc = "result"
  /\ ldap' = [ldap EXCEPT !.pc = "over", !.promise = "rejected",
                          !.events = Append(@, "error")]
  /\ UNCHANGED <<OtherVars, call, page>>

res_onEnd ==
  /\ ldap.pc = "result"
  /\ ldap.delivered = Len(ldap.directory)
  /\ ldap' = [ldap EXCEPT !.pc = "over", !.promise = "resolved",
                          !.events = Append(@, "end")]
  /\ UNCHANGED <<OtherVars, call, page>>

LdapNext ==
  \/ \E entries \in DirectoryContents : syncAllUsers_Call(entries)
  \/ createClient_onError
  \/ \E err \in BOOLEAN : createClient_onBind(err)
  \/ syncAllUsers_Search
  \/ \E err \in BOOLEAN : search_Callback(err)
  \/ res_onSearchEntry
  \/ res_onError
  \/ res_onEnd

LdapSpec == Init /\ [][LdapNext]_vars

Occurrences(events, e) == {i \in DOMAIN events : events[i] = e}

\* C24: in a syncAllUsers call client.destroy() comes only after the search
\* has emitted end or error (never between issuing the search and its last
\* searchEntry), and it is called exactly once on every path (success, search
\* error, bind failure): once when the call has settled, at most once before.
C24_DestroyAfterSearchEnds ==
  LET events == ldap.events
      over == Occurrences(events, "end") \cup Occurrences(events, "error")
  IN /\ \A d \in Occurrences(events, "destroy") :
          \A s \in Occurrences(events, "search") :
            s < d => \E o \in over : s < o /\ o < d
     /\ Cardinality(Occurrences(events, "destroy")) <= 1
     /\ (/\ ldap.promise \in {"resolved", "rejected"}
         /\ ldap.client # "none"
         /\ Occurrences(events, "clientError") = {}) =>
          Cardinality(Occurrences(events, "destroy")) = 1

(***************************************************************************)
(* getUserRole (server/ldap.ts).  A DN is the sequence of its characters,  *)
(* an option of the configuration that is not set is a missing field.      *)
(***************************************************************************)
UpperCase ==
  <<"A", "B", "C", "D", "E", "F", "G", "H", "I", "J", "K", "L", "M", "N",
    "O", "P", "Q", "R", "S", "T", "U", "V", "W", "X", "Y", "Z">>

LowerCase ==
  <<"a", "b", "c", "d", "e", "f", "g", "h", "i", "j", "k", "l", "m", "n",
    "o", "p", "q", "r", "s", "t", "u", "v", "w", "x", "y", "z">>

\* String.prototype.toLowerCase, character by character
lowerCase(s) ==
  [i \in DOMAIN s |->
     IF \E k \in DOMAIN UpperCase : UpperCase[k] = s[i]
     THEN LowerCase[CHOOSE k \in DOMAIN UpperCase : UpperCase[k] = s[i]]
     ELSE s[i]]

\* String.prototype.includes
includes(s, sub) ==
  \E i \in 0..(Len(s) - Len(sub)) : SubSeq(s, i + 1, i + Len(sub)) = sub

\* a configuration option that is set to a non-empty string
Truthy(config, option) == option \in DOMAIN config /\ config[option] # <<>>

\* a user in the read-only group is read-only whatever else they belong to
getUserRole_ReadOnlyFirst(user, config) ==
  LET memberOfLower == [i \in DOMAIN user.memberOf |->
                          lowerCase(user.memberOf[i])]
      some(dn) == \E i \in DOMAIN memberOfLower :
                    includes(memberOfLower[i], lowerCase(dn))
  IN IF Truthy(config, "readOnlyGroupDN") /\ some(config.readOnlyGroupDN)
     THEN "readonly"
     ELSE IF Truthy(config, "adminGroupDN") /\ some(config.adminGroupDN)
     THEN "admin"
     ELSE "user"

getUserRole(user, config) ==
  LET memberOfLower == [i \in DOMAIN user.memberOf |->
                          lowerCase(user.memberOf[i])]
      some(dn) == \E i \in DOMAIN memberOfLower :
                    includes(memberOfLower[i], lowerCase(dn))
  IN IF Truthy(config, "adminGroupDN") /\ some(config.adminGroupDN)
     THEN "admin"
     ELSE IF Truthy(config, "readOnlyGroupDN") /\ some(config.readOnlyGroupDN)
     THEN "readonly"
     ELSE "user"

\* "cn=Adm" and "cn=RO"
AdminDN == <<"c", "n", "=", "A", "d", "m">>
ReadOnlyDN == <<"c", "n", "=", "R", "O">>

\* "CN=adm,dc=x", "cn=ro,dc=x", "cn=ad", "cn=adm+cn=RO"
GroupDNs ==
  { <<"C", "N", "=", "a", "d", "m", ",", "d", "c", "=", "x">>,
    <<"c", "n", "=", "r", "o", ",", "d", "c", "=", "x">>,
    <<"c", "n", "=", "a", "d">>,
    <<"c", "n", "=", "a", "d", "m", "+", "c", "n", "=", "R", "O">> }

MemberOfs == UNION {[1..k -> GroupDNs] : k \in 0..MaxRows}

LdapConfigs ==
  { c \in UNION {[o -> {<<>>, AdminDN, ReadOnlyDN}] :
                   o \in SUBSET {"adminGroupDN", "readOnlyGroupDN"}} :
      /\ "adminGroupDN" \in DOMAIN c => c.adminGroupDN # ReadOnlyDN
      /\ "readOnlyGroupDN" \in DOMAIN c => c.readOnlyGroupDN # AdminDN }

RoleInit ==
  /\ InitDatabase
  /\ ldap = NoClient
  /\ page = ImportPage
  /\ app = ListeningApp
  /\ \E memberOf \in MemberOfs, config \in LdapConfigs :
       call = [fn |-> "getUserRole", user |-> [memberOf |-> memberOf],
               config |-> config, result |-> NULL]

getUserRole_Apply ==
  /\ call.fn = "getUserRole"
  /\ call.result = NULL
  /\ call' = [call EXCEPT !.result = getUserRole(call.user, call.config)]
  /\ UNCHANGED <<OtherVars, ldap, page>>

RoleNext == getUserRole_Apply

RoleSpec == RoleInit /\ [][RoleNext]_vars

\* entry contains dn when case is ignored
ContainsIgnoringCase(entry, dn) ==
  \E i \in 0..(Len(entry) - Len(dn)) :
    \A k \in 1..Len(dn) : lowerCase(<<entry[i + k]>>) = lowerCase(<<dn[k]>>)

InGroup(user, config, option) ==
  /\ Truthy(config, option)
  /\ \E i \in DOMAIN user.memberOf :
       ContainsIgnoringCase(user.memberOf[i], config[option])

\* C25: getUserRole returns admin when adminGroupDN is configured and some
\* memberOf entry contains it ignoring case, otherwise readonly when
\* readOnlyGroupDN is configured and some entry contains it, otherwise user;
\* a member of both groups is admin, a user without memberOf entries is user.
C25_AdminTakesPrecedence ==
  (call.fn = "getUserRole" /\ call.result # NULL) =>
    LET user == call.user
        config == call.config
    IN /\ call.result =
            IF InGroup(user, config, "adminGroupDN") THEN "admin"
            ELSE IF InGroup(user, config, "readOnlyGroupDN") THEN "readonly"
            ELSE "user"
       /\ (/\ InGroup(user, config, "adminGroupDN")
           /\ InGroup(user, config, "readOnlyGroupDN")) =>
            call.result = "admin"
       /\ user.memberOf = <<>> => call.result = "user"

C25_Witness ==
  /\ call.fn = "getUserRole"
  /\ call.result = "admin"
  /\ InGroup(call.user, call.config, "adminGroupDN")
  /\ InGroup(call.user, call.config, "readOnlyGroupDN")

AuthRoutes ==
  {"POST /api/auth/register", "POST /api/auth/login", "POST /api/auth/logout"}

\* a login or registration succeeded on session s, no logout came since, and
\* the user row exists
Established(s) == sessions[s] # NULL /\ sessions[s] \in DOMAIN users

\* C26: a request is authenticated exactly when its session is established
\* (a login or registration succeeded on it, no logout since, the user row
\* exists), whether or not the account is still active; a protected route
\* answers 401 otherwise; the session's user changes only by a successful
\* login (of an active account), a successful registration or a logout, and
\* a logout leaves the session without user.
C26_SessionAuthenticated ==
  [][ /\ Len(reqs') = Len(reqs) + 1 =>
          LET r == reqs'[Len(reqs')]
          IN /\ (r.user # Undefined) <=> Established(r.sess)
             /\ r.user # Undefined => r.user.id = sessions[r.sess]
             /\ (r.route \notin AuthRoutes /\ ~Established(r.sess)) =>
                  (r.pc = "done" /\ r.status = 401)
             /\ (r.route \notin AuthRoutes /\ Established(r.sess)) =>
                  r.status # 401
             /\ r.route = "POST /api/auth/logout" => sessions'[r.sess] = NULL
      /\ \A s \in Sessions :
           sessions'[s] # sessions[s] =>
             \/ /\ Len(reqs') = Len(reqs) + 1
                /\ reqs'[Len(reqs')].sess = s
                /\ \/ /\ reqs'[Len(reqs')].route = "POST /api/auth/logout"
                      /\ sessions'[s] = NULL
                   \/ /\ reqs'[Len(reqs')].route = "POST /api/auth/login"
                      /\ reqs'[Len(reqs')].status = 200
                      /\ sessions'[s] \in DOMAIN users
                      /\ users[sessions'[s]].isActive
             \/ \E n \in DOMAIN reqs :
                  /\ reqs[n].route = "POST /api/auth/register"
                  /\ reqs[n].sess = s
                  /\ reqs[n].pc # "done"
                  /\ reqs'[n].status = 201
                  /\ sessions'[s] = reqs'[n].id ]_vars

C26_Witness ==
  /\ Len(reqs) = 2
  /\ reqs[1].route = "POST /api/auth/logout"
  /\ reqs[1].sess = "s2"
  /\ reqs[1].user # Undefined
  /\ reqs[1].user.id = "u3"
  /\ reqs[2].route = "POST /api/assets"
  /\ reqs[2].sess = "s2"
  /\ reqs[2].status = 401

\* the columns of a user object that hold text
TextColumns(user) == DOMAIN user \ {"isAdmin", "isActive", "undefined"}

PasswordFree(user) ==
  /\ "password" \notin DOMAIN user
  /\ \A k \in TextColumns(user), u \in DOMAIN users :
       user[k] # users[u].password

\* C27: no user object attached to a request or returned by POST
\* /api/auth/register, POST /api/auth/login and GET /api/auth/user has a
\* password field or carries a password hash, and a returned user is the
\* stored row without its password column, so that the password has no part in
\* the response; a session holds nothing but the user's id.
C27_PasswordStaysOnServer ==
  /\ \A n \in DOMAIN reqs :
       LET r == reqs[n]
       IN /\ PasswordFree(r.user)
          /\ PasswordFree(r.response)
          /\ r.response # Undefined =>
               /\ r.response.id \in DOMAIN users
               /\ r.response =
                    [k \in DOMAIN users[r.response.id] \ {"password"} |->
                       users[r.response.id][k]]
  /\ \A s \in Sessions : sessions[s] \in DOMAIN users \cup {NULL}

C27_Witness ==
  /\ Len(reqs) = 2
  /\ reqs[1].route = "POST /api/auth/register"
  /\ reqs[1].status = 201
  /\ reqs[1].response # Undefined
  /\ reqs[2].route = "GET /api/auth/user"
  /\ reqs[2].status = 200
  /\ reqs[2].response = reqs[1].response

(***************************************************************************)
(* calculateSimilarity and suggestMapping of the import page.  A string is *)
(* the sequence of its characters; a similarity is the fraction num / den  *)
(* (JavaScript's division of two small integers and the literals 0.8 and   *)
(* 0.4 compare as these fractions do).                                     *)
(***************************************************************************)
ASSET_FIELDS ==
  << [key |->
        <<"a", "s", "s", "e", "t", "T", "a", "g">>,
      label |->
        <<"A", "s", "s", "e", "t", " ", "T", "a", "g">>,
      required |-> TRUE],
     [key |->
        <<"n", "a", "m", "e">>,
      label |->
        <<"N", "a", "m", "e">>,
      required |-> TRUE],
     [key |->
        <<"d", "e", "s", "c", "r", "i", "p", "t", "i", "o", "n">>,
      label |->
        <<"D", "e", "s", "c", "r", "i", "p", "t", "i", "o", "n">>,
      required |-> FALSE],
     [key |->
        <<"m", "a", "n", "u", "f", "a", "c", "t", "u", "r", "e", "r">>,
      label |->
        <<"M", "a", "n", "u", "f", "a", "c", "t", "u", "r", "e", "r">>,
      required |-> FALSE],
     [key |->
        <<"m", "o", "d", "e", "l">>,
      label |->
        <<"M", "o", "d", "e", "l">>,
      required |-> FALSE],
     [key |->
        <<"s", "e", "r", "i", "a", "l", "N", "u", "m", "b", "e", "r">>,
      label |->
        <<"S", "e", "r", "i", "a", "l", " ", "N", "u", "m", "b", "e", "r">>,
      required |-> FALSE],
     [key |->
        <<"p", "u", "r", "c", "h", "a", "s", "e", "D", "a", "t", "e">>,
      label |->
        <<"P", "u", "r", "c", "h", "a", "s", "e", " ", "D", "a", "t", "e">>,
      required |-> FALSE],
     [key |->
        <<"p", "u", "r", "c", "h", "a", "s", "e", "C", "o", "s", "t">>,
      label |->
        <<"P", "u", "r", "c", "h", "a", "s", "e", " ", "C", "o", "s", "t">>,
      required |-> FALSE],
     [key |->
        <<"w", "a", "r", "r", "a", "n", "t", "y", "E", "x", "p", "i", "r", "y">>,
      label |->
        <<"W", "a", "r", "r", "a", "n", "t", "y", " ", "E", "x", "p", "i",
          "r", "y">>,
      required |-> FALSE],
     [key |->
        <<"l", "o", "c", "a", "t", "i", "o", "n">>,
      label |->
        <<"L", "o", "c", "a", "t", "i", "o", "n">>,
      required |-> FALSE],
     [key |->
        <<"s", "t", "a", "t", "u", "s">>,
      label |->
        <<"S", "t", "a", "t", "u", "s">>,
      required |-> FALSE],
     [key |->
        <<"n", "o", "t", "e", "s">>,
      label |->
        <<"N", "o", "t", "e", "s">>,
      required |-> FALSE] >>

Fraction(num, den) == [num |-> num, den |-> den]

Less(a, b) == a.num * b.den < b.num * a.den

Same(a, b) == a.num * b.den = b.num * a.den

\* Math.max
Max(a, b) == IF Less(a, b) THEN b ELSE a

SIMILARITY_THRESHOLD == Fraction(2, 5)

\* str.toLowerCase().replace(/[_\-\s]/g, "")
Stripped(str) ==
  SelectSeq(lowerCase(str), LAMBDA c : c \notin {"_", "-", " ", "\t"})

\* String.prototype.includes for one character
hasChar(s, c) == \E j \in DOMAIN s : s[j] = c

calculateSimilarity(str1, str2) ==
  LET s1 == Stripped(str1)
      s2 == Stripped(str2)
      shorter == IF Len(s1) < Len(s2) THEN s1 ELSE s2
      longer == IF Len(s1) < Len(s2) THEN s2 ELSE s1
      matches == Cardinality({i \in DOMAIN shorter : hasChar(longer, shorter[i])})
  IN IF s1 = s2 THEN Fraction(1, 1)
     ELSE IF includes(s1, s2) \/ includes(s2, s1) THEN Fraction(4, 5)
     ELSE Fraction(matches, Len(longer))

\* the loop of suggestMapping from field number i on
RECURSIVE bestMatchFrom(_, _, _)
bestMatchFrom(header, i, bestMatch) ==
  IF i > Len(ASSET_FIELDS) THEN bestMatch
  ELSE LET field == ASSET_FIELDS[i]
           labelSim == calculateSimilarity(header, field.label)
           keySim == calculateSimilarity(header, field.key)
           maxSim == Max(labelSim, keySim)
       IN bestMatchFrom(header, i + 1,
            IF Less(bestMatch.confidence, maxSim)
            THEN [field |-> field.key, confidence |-> maxSim]
            ELSE bestMatch)

NoSuggestion == [field |-> <<>>, confidence |-> Fraction(0, 1)]

suggestMapping(header) ==
  LET bestMatch == bestMatchFrom(header, 1, NoSuggestion)
  IN IF ~Less(bestMatch.confidence, SIMILARITY_THRESHOLD)
     THEN bestMatch ELSE NoSuggestion

\* "Asset Tag", "asset_tag", "Tag", "Name", "Modem", "S/N", "Serial-Number",
\* "Cost", "xyz", "", "Purchase", "Status"
Headers ==
  { <<"A", "s", "s", "e", "t", " ", "T", "a", "g">>,
    <<"a", "s", "s", "e", "t", "_", "t", "a", "g">>,
    <<"T", "a", "g">>,
    <<"N", "a", "m", "e">>,
    <<"M", "o", "d", "e", "m">>,
    <<"S", "/", "N">>,
    <<"S", "e", "r", "i", "a", "l", "-", "N", "u", "m", "b", "e", "r">>,
    <<"C", "o", "s", "t">>,
    <<"x", "y", "z">>,
    <<>>,
    <<"P", "u", "r", "c", "h", "a", "s", "e">>,
    <<"S", "t", "a", "t", "u", "s">> }

FieldTexts ==
  {ASSET_FIELDS[i].key : i \in DOMAIN ASSET_FIELDS}
    \cup {ASSET_FIELDS[i].label : i \in DOMAIN ASSET_FIELDS}

MappingInit ==
  /\ InitDatabase
  /\ ldap = NoClient
  /\ page = ImportPage
  /\ app = ListeningApp
  /\ \/ \E header \in Headers :
          call = [fn |-> "suggestMapping", header |-> header,
                  result |-> Undefined]
     \/ \E str1 \in Headers, str2 \in FieldTexts, swap \in BOOLEAN :
          call = [fn |-> "calculateSimilarity",
                  str1 |-> IF swap THEN str2 ELSE str1,
                  str2 |-> IF swap THEN str1 ELSE str2,
                  result |-> Undefined]

suggestMapping_Apply ==
  /\ call.fn = "suggestMapping"
  /\ call.result = Undefined
  /\ call' = [call EXCEPT !.result = suggestMapping(call.header)]
  /\ UNCHANGED <<OtherVars, ldap, page>>

calculateSimilarity_Apply ==
  /\ call.fn = "calculateSimilarity"
  /\ call.result = Undefined
  /\ call' = [call EXCEPT
                !.result = calculateSimilarity(call.str1, call.str2)]
  /\ UNCHANGED <<OtherVars, ldap, page>>

MappingNext == suggestMapping_Apply \/ calculateSimilarity_Apply

MappingSpec == MappingInit /\ [][MappingNext]_vars

\* the similarity suggestMapping gives field number i for a header
FieldSimilarity(header, i) ==
  Max(calculateSimilarity(header, ASSET_FIELDS[i].label),
      calculateSimilarity(header, ASSET_FIELDS[i].key))

\* C28: suggestMapping(header) returns the field with the highest similarity
\* (the first such field of ASSET_FIELDS) when that similarity is at least
\* 0.4 and no field with confidence 0 otherwise; a similarity lies between 0
\* and 1, is 1 for strings that are equal once case, spaces, underscores and
\* hyphens are removed, and is the same for both orders of the two arguments.
C28_SuggestMapping ==
  /\ (call.fn = "suggestMapping" /\ call.result # Undefined) =>
       LET header == call.header
           best == CHOOSE i \in DOMAIN ASSET_FIELDS :
                     /\ \A j \in DOMAIN ASSET_FIELDS :
                          ~Less(FieldSimilarity(header, i),
                                FieldSimilarity(header, j))
                     /\ \A j \in 1..(i - 1) :
                          Less(FieldSimilarity(header, j),
                               FieldSimilarity(header, i))
       IN IF ~Less(FieldSimilarity(header, best), SIMILARITY_THRESHOLD)
          THEN /\ call.result.field = ASSET_FIELDS[best].key
               /\ Same(call.result.confidence, FieldSimilarity(header, best))
          ELSE call.result = NoSuggestion
  /\ (call.fn = "calculateSimilarity" /\ call.result # Undefined) =>
       /\ ~Less(call.result, Fraction(0, 1))
       /\ ~Less(Fraction(1, 1), call.result)
       /\ Stripped(call.str1) = Stripped(call.str2) =>
            Same(call.result, Fraction(1, 1))
       /\ Same(call.result, calculateSimilarity(call.str2, call.str1))

(***************************************************************************)
(* The import page (ImportPage).  A CSV file is the sequence of its        *)
(* non-empty lines, a line the sequence of its cells; the cells of the     *)
(* first line are the headers.  The FileReader's load event and the        *)
(* settling of an import request are events of their own.                  *)
(***************************************************************************)
MaxUploads == 2
MaxImports == 1

HeaderAssetTag == <<"A", "s", "s", "e", "t", " ", "T", "a", "g">>
HeaderTag == <<"T", "a", "g">>
HeaderName == <<"N", "a", "m", "e">>
HeaderXyz == <<"x", "y", "z">>

Files ==
  { [name |-> "dup.csv",
     lines |-> << <<HeaderTag, HeaderAssetTag>>, <<"T7", "T8">> >>],
    [name |-> "short.csv",
     lines |-> << <<HeaderName, HeaderXyz>>, <<"Laptop 5">> >>],
    [name |-> "empty.csv", lines |-> <<>>],
    [name |-> "notes.txt", lines |-> << <<HeaderName>>, <<"Laptop 6">> >>] }

\* uploadedFile.name.endsWith(".csv")
endsWithCsv(name) == name \in {"dup.csv", "short.csv", "empty.csv"}

\* parseCSV: lines[0] is undefined for a text without lines and the call throws
parseCSVThrows(file) == file.lines = <<>>

parseCSV(file) == [headers |-> Head(file.lines), rows |-> Tail(file.lines)]

\* the values of the Select of a column: "skip" or the key of a field
Skip == <<"s", "k", "i", "p">>

SelectValues == {Skip, ASSET_FIELDS[1].key}

CategoryChoices == {"none", "id1"}

\* the responses of POST /api/import the page reads its results from
ImportResponses == {[success |-> 1, failed |-> 0], [success |-> 0, failed |-> 1]}

\* mappings[header], undefined read as ""
Mapped(mappings, header) ==
  IF header \in DOMAIN mappings THEN mappings[header] ELSE <<>>

\* {...mappings, [header]: value}
SetKey(mappings, header, value) ==
  [h \in DOMAIN mappings \cup {header} |->
     IF h = header THEN value ELSE mappings[h]]

\* the mappings handleFileUpload derives from the headers, header by header
RECURSIVE autoMappingsFrom(_, _, _)
autoMappingsFrom(headers, i, autoMappings) ==
  IF i > Len(headers) THEN autoMappings
  ELSE LET suggestion == suggestMapping(headers[i])
       IN autoMappingsFrom(headers, i + 1,
            IF suggestion.field # <<>>
            THEN SetKey(autoMappings, headers[i], suggestion.field)
            ELSE autoMappings)

\* row[index] || ""
Cell(row, index) == IF index \in DOMAIN row THEN row[index] ELSE ""

\* handleImport: mappedRow of one row, each header writing its field in turn
RECURSIVE mappedRowFrom(_, _, _, _, _)
mappedRowFrom(headers, mappings, row, index, mappedRow) ==
  IF index > Len(headers) THEN mappedRow
  ELSE LET targetField == Mapped(mappings, headers[index])
       IN mappedRowFrom(headers, mappings, row, index + 1,
            IF targetField # <<>>
            THEN SetKey(mappedRow, targetField, Cell(row, index))
            ELSE mappedRow)

mappedRows(parsedData, mappings) ==
  [r \in DOMAIN parsedData.rows |->
     mappedRowFrom(parsedData.headers, mappings, parsedData.rows[r], 1,
                   EmptyObject)]

\* the fields the preview table has a column for
previewFields(mappings) ==
  {i \in DOMAIN ASSET_FIELDS :
     \E h \in DOMAIN mappings : mappings[h] = ASSET_FIELDS[i].key}

\* the text of the preview cell of a row for field number i
previewCell(parsedData, mappings, row, i) ==
  LET found == {k \in DOMAIN parsedData.headers :
                  Mapped(mappings, parsedData.headers[k]) = ASSET_FIELDS[i].key}
      headerIndex == CHOOSE k \in found : \A j \in found : k <= j
  IN IF found = {} THEN "-"
     ELSE IF headerIndex \in DOMAIN row THEN row[headerIndex] ELSE ""

PageVars == <<OtherVars, ldap, call>>

\* the file input's change event or a drop, while the upload step is shown
handleFileUpload(uploadedFile) ==
  /\ page.step = "upload"
  /\ page.uploads < MaxUploads
  /\ page' = IF ~endsWithCsv(uploadedFile.name)
            THEN [page EXCEPT !.uploads = @ + 1]
            ELSE [page EXCEPT !.uploads = @ + 1,
                              !.file = uploadedFile.name,
                              !.readers = Append(@, uploadedFile)]
  /\ UNCHANGED PageVars

\* reader.onload of the load number k under way
reader_onload(k) ==
  /\ k \in DOMAIN page.readers
  /\ LET file == page.readers[k]
         rest == [i \in 1..(Len(page.readers) - 1) |->
                    IF i < k THEN page.readers[i] ELSE page.readers[i + 1]]
     IN page' = IF parseCSVThrows(file)
                THEN [page EXCEPT !.readers = rest]
                ELSE LET data == parseCSV(file)
                     IN [page EXCEPT
                           !.readers = rest,
                           !.parsedData = data,
                           !.mappings = autoMappingsFrom(data.headers, 1,
                                                         EmptyObject),
                           !.step = "mapping"]
  /\ UNCHANGED PageVars

\* the Select of a column of the mapping step
selectMapping(header, value) ==
  /\ page.step = "mapping"
  /\ page.parsedData # [null |-> TRUE]
  /\ \E k \in DOMAIN page.parsedData.headers : page.parsedData.headers[k] = header
  /\ page' = [page EXCEPT !.mappings =
                SetKey(@, header, IF value = Skip THEN <<>> ELSE value)]
  /\ UNCHANGED PageVars

selectCategory(id) ==
  /\ page.step = "mapping"
  /\ page.parsedData # [null |-> TRUE]
  /\ page' = [page EXCEPT !.selectedCategoryId = id]
  /\ UNCHANGED PageVars

\* the button Continue to Preview
continueToPreview ==
  /\ page.step = "mapping"
  /\ page.parsedData # [null |-> TRUE]
  /\ page' = [page EXCEPT !.step = "preview"]
  /\ UNCHANGED PageVars

\* the button Back to Mapping
backToMapping ==
  /\ page.step = "preview"
  /\ page.parsedData # [null |-> TRUE]
  /\ page' = [page EXCEPT !.step = "mapping"]
  /\ UNCHANGED PageVars

\* the button Import of the preview step
handleImport ==
  /\ page.step = "preview"
  /\ page.parsedData # [null |-> TRUE]
  /\ page.imports < MaxImports
  /\ page' = [page EXCEPT
       !.step = "importing",
       !.importProgress = 0,
       !.intervals = @ + 1,
       !.imports = @ + 1,
       !.requests = Append(@,
          [rows |-> mappedRows(page.parsedData, page.mappings),
           categoryId |-> IF page.selectedCategoryId # "none"
                          THEN page.selectedCategoryId ELSE "<undefined>"])]
  /\ UNCHANGED PageVars

\* one tick of a progress timer
progressInterval ==
  /\ page.intervals > 0
  /\ page' = IF page.importProgress >= 90
            THEN [page EXCEPT !.intervals = @ - 1]
            ELSE [page EXCEPT !.importProgress = @ + 10]
  /\ UNCHANGED PageVars

\* importMutation.onSuccess for the oldest request under way
importMutation_onSuccess(data) ==
  /\ page.requests # <<>>
  /\ page' = [page EXCEPT !.requests = Tail(@),
                          !.importResults = data,
                          !.step = "complete"]
  /\ UNCHANGED PageVars

importMutation_onError ==
  /\ page.requests # <<>>
  /\ page' = [page EXCEPT !.requests = Tail(@), !.step = "preview"]
  /\ UNCHANGED PageVars

\* the buttons Cancel (mapping step) and Import More (complete step)
resetImport ==
  /\ \/ page.step = "mapping" /\ page.parsedData # [null |-> TRUE]
     \/ page.step = "complete"
  /\ page' = [page EXCEPT
       !.step = "upload", !.file = NULL, !.parsedData = [null |-> TRUE],
       !.mappings = EmptyObject, !.importProgress = 0,
       !.importResults = [success |-> 0, failed |-> 0],
       !.selectedCategoryId = "none"]
  /\ UNCHANGED PageVars

WizardNext ==
  \/ \E uploadedFile \in Files : handleFileUpload(uploadedFile)
  \/ \E k \in 1..MaxUploads : reader_onload(k)
  \/ \E header \in {HeaderAssetTag, HeaderTag, HeaderName, HeaderXyz},
        value \in SelectValues : selectMapping(header, value)
  \/ \E id \in CategoryChoices : selectCategory(id)
  \/ continueToPreview
  \/ backToMapping
  \/ handleImport
  \/ progressInterval
  \/ \E data \in ImportResponses : importMutation_onSuccess(data)
  \/ importMutation_onError
  \/ resetImport

WizardSpec == Init /\ [][WizardNext]_vars

\* C29: when the import is started from the preview, every cell the preview
\* shows for a row and a field is the value handleImport sends for that field
\* of that row, and no field is fed by more than one column.
C29_PreviewIsWhatIsImported ==
  [][ (page.step = "preview" /\ Len(page'.requests) = Len(page.requests) + 1) =>
        LET data == page.parsedData
            sent == page'.requests[Len(page'.requests)].rows
        IN /\ \A r \in DOMAIN data.rows, i \in previewFields(page.mappings) :
                /\ ASSET_FIELDS[i].key \in DOMAIN sent[r]
                /\ sent[r][ASSET_FIELDS[i].key] =
                     previewCell(data, page.mappings, data.rows[r], i)
           /\ \A i \in DOMAIN ASSET_FIELDS :
                Cardinality({k \in DOMAIN data.headers :
                               Mapped(page.mappings, data.headers[k])
                                 = ASSET_FIELDS[i].key}) <= 1 ]_vars

StepChanges ==
  { <<"upload", "mapping">>, <<"mapping", "preview">>, <<"preview", "mapping">>,
    <<"preview", "importing">>, <<"importing", "complete">>,
    <<"importing", "preview">> }

Cleared(p) ==
  /\ p.file = NULL
  /\ p.parsedData = [null |-> TRUE]
  /\ p.mappings = EmptyObject
  /\ p.importProgress = 0
  /\ p.importResults = [success |-> 0, failed |-> 0]
  /\ p.selectedCategoryId = "none"

\* C30: the step changes only from upload to mapping (with parsed data),
\* mapping to preview, preview to mapping or importing, importing to complete
\* (when a request succeeded) or to preview (when it failed), and from any
\* step to upload, which leaves file, parsed data, mappings, progress, results
\* and selected category cleared; an import request is sent only from the
\* preview step.
C30_WizardStepsInOrder ==
  [][ /\ page'.step # page.step =>
           \/ <<page.step, page'.step>> \in StepChanges
           \/ page'.step = "upload"
      /\ (page.step = "upload" /\ page'.step = "mapping") =>
           page'.parsedData # [null |-> TRUE]
      /\ (page.step = "importing" /\ page'.step \in {"complete", "preview"}) =>
           Len(page'.requests) < Len(page.requests)
      /\ (page.step # "upload" /\ page'.step = "upload") => Cleared(page')
      /\ Len(page'.requests) > Len(page.requests) => page.step = "preview"
    ]_vars

====
